---- MODULE Spec2Model ----
(***************************************************************************)
(* Evaluator-Judge scan engine of sales-protocol: the dialog-level         *)
(* run_scan orchestrator (infrastructure/scan_runner.py), the LLM call     *)
(* wrapper (llm.py), the run store (db.py) and the report's canonical-run  *)
(* selection (infrastructure/reporting.py).                                *)
(*                                                                         *)
(* Texts and quotes are sequences of one-character strings.  Conversation  *)
(* ids are naturals standing for the id strings in ascending order         *)
(* (1 = "conv_01", ...).  Ratios are exact fractions <<num, den>>.         *)
(***************************************************************************)
EXTENDS Integers, Sequences, FiniteSets, TLC

VARIABLES
    conversations,    \* table conversations: set of conversation ids
    messages,         \* table messages: set of message rows
    scan_runs,        \* table scan_runs: run_id -> row
    scan_results,     \* table scan_results: set of rows
    scan_metrics,     \* table scan_metrics: set of rows
    llm_calls,        \* table llm_calls: sequence of rows, in call_id order
    app_state,        \* table app_state, key canonical_run_id (NoRun = no row)
    clock,            \* now_utc(), as a logical clock
    pc,               \* position of run_scan: idle | conversation | judge
    run,              \* locals of the run_scan in progress
    last_call,        \* how run_scan ended, while it is the latest operation
    report,           \* what build_report produced, while it is the latest operation
    probe,            \* the latest application of a function studied on its own
    message_scan,     \* pipeline.run_scan, the per-message scan: its runs, rows and locals
    durable           \* the rows of scan_results that are committed

\* the store and the position of run_scan and build_report
store == <<conversations, messages, scan_runs, scan_results, scan_metrics,
           llm_calls, app_state, clock, pc, run, last_call, report, durable>>

vars == <<conversations, messages, scan_runs, scan_results, scan_metrics,
          llm_calls, app_state, clock, pc, run, last_call, report, probe,
          message_scan, durable>>

-----------------------------------------------------------------------------
(* Bounds of the model *)

MaxRuns == 2
MaxEvidenceRuns == 1
MaxKeys == 3
MaxRows == 3
MaxSellerRows == 4
MaxMessageScans == 1
MaxCrashRuns == 1
MaxFreshRuns == 1

-----------------------------------------------------------------------------
(* Values *)

NoRun == "none"
NullInt == -1

METRICS_VERSION == "v5_dialog_level_bundle"
LegacyVersion == "v4_legacy"
LegacyFirst == "legacy_b"
LegacySecond == "legacy_a"
RunIds == {"r1", "r2"}

RULES == <<"greeting", "upsell", "empathy">>

all_rules == RULES

rule_keys == {RULES[i] : i \in 1..Len(RULES)}

greeting_window_max == 3

is_seller_message(speaker_label) == speaker_label = "Sales Rep"

-----------------------------------------------------------------------------
(* Strings *)

Space == " "

RECURSIVE lstrip(_)
lstrip(s) ==
    IF s # <<>> /\ Head(s) = Space THEN lstrip(Tail(s)) ELSE s

RECURSIVE rstrip(_)
rstrip(s) ==
    IF s # <<>> /\ s[Len(s)] = Space THEN rstrip(SubSeq(s, 1, Len(s) - 1)) ELSE s

strip(s) == rstrip(lstrip(s))

\* Python's `q in t` for strings: the empty string is in every string.
str_in(q, t) ==
    \E i \in 0..(Len(t) - Len(q)) : SubSeq(t, i + 1, i + Len(q)) = q

-----------------------------------------------------------------------------
(* Fractions *)

\* the division without its guard
_safe_div_unguarded(a, b) == <<a, b>>

_safe_div(a, b) == IF b # 0 THEN <<a, b>> ELSE <<0, 1>>

FracEq(x, y) == x[1] * y[2] = y[1] * x[2]

IsOne(x) == x[2] # 0 /\ x[1] = x[2]

IsZero(x) == x[2] # 0 /\ x[1] = 0

-----------------------------------------------------------------------------
(* The ingested dataset *)

Msg(id, conv, ord, speaker, text) ==
    [message_id |-> id, conversation_id |-> conv, message_order |-> ord,
     speaker_label |-> speaker, text |-> text]

\* conv 1: a customer turn and four seller turns; conv 2: no seller turn;
\* conv 3: one seller turn followed by a customer turn.
Dataset ==
    { Msg(1, 1, 1, "Customer", <<"b">>),
      Msg(2, 1, 2, "Sales Rep", <<"a", "b">>),
      Msg(3, 1, 3, "Sales Rep", <<"a">>),
      Msg(4, 1, 4, "Sales Rep", <<"b">>),
      Msg(5, 1, 5, "Sales Rep", <<"a", "b">>),
      Msg(6, 2, 1, "Customer", <<"a">>),
      Msg(7, 3, 1, "Sales Rep", <<"b", "a">>),
      Msg(8, 3, 2, "Customer", <<"a">>) }

-----------------------------------------------------------------------------
(* Sorting helpers for ORDER BY *)

RECURSIVE SortedInts(_)
SortedInts(S) ==
    IF S = {} THEN <<>>
    ELSE LET m == CHOOSE x \in S : \A y \in S : x <= y
         IN <<m>> \o SortedInts(S \ {m})

\* rows of R in ascending message_order (orders are unique in a conversation)
RECURSIVE _ordered_messages(_)
_ordered_messages(R) ==
    IF R = {} THEN <<>>
    ELSE LET m == CHOOSE x \in R : \A y \in R : x.message_order <= y.message_order
         IN <<m>> \o _ordered_messages(R \ {m})

SellerMessageRef(m) ==
    [message_id |-> m.message_id, message_order |-> m.message_order, text |-> m.text]

seller_message_refs(conversation_messages) ==
    LET ordered == _ordered_messages(conversation_messages)
        keep(m) == is_seller_message(m.speaker_label)
    IN [i \in 1..Len(SelectSeq(ordered, keep)) |->
            SellerMessageRef(SelectSeq(ordered, keep)[i])]

\* the window taken over the first messages of the conversation, whoever spoke
greeting_window_refs_any_speaker(conversation_messages, max_messages) ==
    LET refs == seller_message_refs(conversation_messages)
        keep(a) == a.message_order <= max_messages
    IN SelectSeq(refs, keep)

greeting_window_refs(conversation_messages, max_messages) ==
    LET refs == seller_message_refs(conversation_messages)
        n == IF max_messages > 0 THEN max_messages ELSE 0
    IN SubSeq(refs, 1, IF n < Len(refs) THEN n ELSE Len(refs))

Range(f) == {f[i] : i \in DOMAIN f}

-----------------------------------------------------------------------------
(* models.py: one evaluator verdict and one judge verdict *)

Verdict(hit, quote, id, ord) ==
    [hit |-> hit, evidence_quote |-> quote,
     evidence_message_id |-> id, evidence_message_order |-> ord]

\* RuleEvaluation: Field(ge=1) on the anchors and validate_evidence_contract
RuleEvaluation_valid(v) ==
    /\ v.evidence_message_id = NullInt \/ v.evidence_message_id >= 1
    /\ v.evidence_message_order = NullInt \/ v.evidence_message_order >= 1
    /\ IF v.hit
       THEN /\ strip(v.evidence_quote) # <<>>
            /\ v.evidence_message_id # NullInt
            /\ v.evidence_message_order # NullInt
       ELSE /\ v.evidence_message_id = NullInt
            /\ v.evidence_message_order = NullInt

\* models.py: ReasonCode, the one literal type of RuleEvaluation.reason_code
ReasonCode ==
    {"greeting_present", "greeting_missing", "greeting_late",
     "next_step_present", "next_step_missing", "cta_without_next_step",
     "empathy_acknowledged", "courtesy_without_empathy",
     "informational_without_empathy"}

\* sgr_core.py: RULE_REASON_CODES, the codes the prompt lists for each rule
RULE_REASON_CODES ==
    [greeting |-> {"greeting_present", "greeting_missing", "greeting_late"},
     upsell |-> {"upsell_offer", "upsell_missing", "discount_without_upsell"},
     empathy |-> {"empathy_acknowledged", "courtesy_without_empathy",
                  "informational_without_empathy"}]

\* RuleEvaluation with its reason_code: the field is checked against the
\* literal type, whichever bundle field the verdict stands in
RuleEvaluation_with_code_valid(reason_code, v) ==
    /\ reason_code \in ReasonCode
    /\ RuleEvaluation_valid(v)

JudgeVerdict(expected_hit, label) == [expected_hit |-> expected_hit, label |-> label]

RuleJudgeEvaluation_valid(v) == v.expected_hit \in BOOLEAN /\ v.label \in BOOLEAN

\* a bundle that tolerates fields it does not declare
bundle_model_validate_open(kind, keys, payload) ==
    /\ keys \subseteq DOMAIN payload
    /\ \A k \in keys :
          IF kind = "evaluator" THEN RuleEvaluation_valid(payload[k])
          ELSE RuleJudgeEvaluation_valid(payload[k])

\* judge/schema_factory.py: the bundle is a closed record with one required
\* field per rule key, each of the verdict type of its kind.
bundle_model_validate(kind, keys, payload) ==
    /\ DOMAIN payload = keys
    /\ \A k \in keys :
          IF kind = "evaluator" THEN RuleEvaluation_valid(payload[k])
          ELSE RuleJudgeEvaluation_valid(payload[k])

\* judge/contracts.py normalized_rule_keys: every key trimmed, blank keys
\* dropped; an empty result and a repeated key raise ValueError
trimmed_keys(keys_in) ==
    LET nonblank(k) == k # <<>>
    IN SelectSeq([i \in DOMAIN keys_in |-> strip(keys_in[i])], nonblank)

\* the normalisation that lets a repeated key through
normalized_rule_keys_unchecked(keys_in) ==
    LET keys == trimmed_keys(keys_in)
    IN IF keys = <<>> THEN [raised |-> TRUE, keys |-> <<>>]
       ELSE [raised |-> FALSE, keys |-> keys]

normalized_rule_keys(keys_in) ==
    LET keys == trimmed_keys(keys_in)
    IN IF keys = <<>> THEN [raised |-> TRUE, keys |-> <<>>]
       ELSE IF \E i, j \in DOMAIN keys : i # j /\ keys[i] = keys[j]
            THEN [raised |-> TRUE, keys |-> <<>>]
       ELSE [raised |-> FALSE, keys |-> keys]

\* build_evaluator_bundle_model / build_judge_bundle_model: the JSON schema of
\* the model created with one required field per normalized key on the
\* strict base (extra = forbid)
build_bundle_model(kind, keys_in) ==
    LET n == normalized_rule_keys(keys_in)
        fields == {n.keys[i] : i \in DOMAIN n.keys}
    IN [raised |-> n.raised, kind |-> kind, properties |-> fields,
        required |-> fields, additionalProperties |-> FALSE]

\* sgr_core.py QualityThresholds, scores and thresholds in hundredths
QUALITY_THRESHOLDS ==
    [green_min |-> 90, yellow_min |-> 80, rule_alert_min |-> 85,
     judge_coverage_min |-> 100]

quality_thresholds == QUALITY_THRESHOLDS

\* sgr_core.py heatmap_zone; a missing score is NullInt
heatmap_zone(score, cfg) ==
    IF score = NullInt THEN "na"
    ELSE IF score >= cfg.green_min THEN "green"
    ELSE IF score >= cfg.yellow_min THEN "yellow"
    ELSE "red"

\* infrastructure/reporting.py _heatmap_zone
reporting_heatmap_zone(score) == heatmap_zone(score, quality_thresholds)

\* pipeline.py _heatmap_zone, its own literals 0.90 and 0.70
pipeline_heatmap_zone(score) ==
    IF score = NullInt THEN "na"
    ELSE IF score >= 90 THEN "green"
    ELSE IF score >= 70 THEN "yellow"
    ELSE "red"

-----------------------------------------------------------------------------
(* sgr_core_deterministic.py: the deterministic evaluator *)
\* Cyrillic markers are written in Latin transliteration

UpperCase == <<"A", "B", "C", "D", "E", "F", "G", "H", "I", "J", "K", "L", "M", "N", "O", "P", "Q", "R", "S", "T", "U", "V", "W", "X", "Y", "Z">>

LowerCase == <<"a", "b", "c", "d", "e", "f", "g", "h", "i", "j", "k", "l", "m", "n", "o", "p", "q", "r", "s", "t", "u", "v", "w", "x", "y", "z">>

lower(text) ==
    [i \in DOMAIN text |->
        IF \E j \in DOMAIN UpperCase : UpperCase[j] = text[i]
        THEN LowerCase[CHOOSE j \in DOMAIN UpperCase : UpperCase[j] = text[i]]
        ELSE text[i]]

\* text.split()[0] if text.split() else ""
first_word(text) ==
    LET body == lstrip(text)
        stops == {i \in DOMAIN body : body[i] = Space}
    IN IF stops = {} THEN body
       ELSE SubSeq(body, 1, (CHOOSE i \in stops : \A j \in stops : i <= j) - 1)

_is_greeting(text) ==
    LET low == lower(text)
    IN str_in(<<"z", "d", "r", "a", "v">>, low) \/ str_in(<<"h", "e", "l", "l", "o">>, low)

_is_next_step(text) ==
    LET low == lower(text)
        cta_markers == {<<"d", "e", "m", "o">>,
                        <<"s", "o", "z", "v", "o", "n">>,
                        <<"c", "a", "l", "l">>,
                        <<"m", "e", "e", "t", "i", "n", "g">>,
                        <<"v", "s", "t", "r", "e", "c", "h">>,
                        <<"t", "u", "r">>,
                        <<"t", "o", "u", "r">>,
                        <<"m", "a", "t", "e", "r", "i", "a", "l">>,
                        <<"s", "e", "n", "d", " ", "y", "o", "u">>,
                        <<"o", "t", "p", "r", "a", "v">>,
                        <<"n", "e", "x", "t", " ", "s", "t", "e", "p">>,
                        <<"s", "l", "e", "d", "u", "y", "u", "s", "h">>,
                        <<"p", "l", "a", "n">>,
                        <<"p", "a", "k", "e", "t">>,
                        <<"p", "a", "c", "k", "a", "g", "e">>,
                        <<"d", "o", "p">>,
                        <<"r", "e", "c", "o", "m", "m", "e", "n", "d">>,
                        <<"p", "r", "e", "d", "l", "a", "g", "a">>}
    IN \E marker \in cta_markers : str_in(marker, low)

_is_empathy(text) ==
    LET low == lower(text)
    IN str_in(<<"p", "o", "n", "i", "m", "a">>, low) \/ str_in(<<"u", "n", "d", "e", "r", "s", "t", "a", "n", "d">>, low)

reason_code_for_rule(rule_key, hit) ==
    IF rule_key = "greeting"
    THEN (IF hit THEN "greeting_present" ELSE "greeting_missing")
    ELSE IF rule_key = "next_step"
    THEN (IF hit THEN "next_step_present" ELSE "next_step_missing")
    ELSE (IF hit THEN "empathy_acknowledged" ELSE "informational_without_empathy")

\* the matcher table with its default for a key it does not hold
matcher(rule_key, text) ==
    IF rule_key = "greeting" THEN _is_greeting(text)
    ELSE IF rule_key = "next_step" THEN _is_next_step(text)
    ELSE IF rule_key = "empathy" THEN _is_empathy(text)
    ELSE FALSE

DialogEval(hit, reason_code, quote, message_id, message_order) ==
    [hit |-> hit, reason_code |-> reason_code, evidence_quote |-> quote,
     evidence_message_id |-> message_id, evidence_message_order |-> message_order]

\* the first row of rows[1..n] the matcher accepts, 0 when there is none
first_match(rule_key, rows, n) ==
    LET found == {i \in 1..n : matcher(rule_key, rows[i].text)}
    IN IF found = {} THEN 0 ELSE CHOOSE i \in found : \A j \in found : i <= j

\* the greeting looked for in every seller row
rule_eval_for_dialog_no_window(rule_key, seller_rows) ==
    LET anywhere == first_match(rule_key, seller_rows, Len(seller_rows))
    IN IF anywhere # 0
       THEN DialogEval(TRUE, reason_code_for_rule(rule_key, TRUE),
                       first_word(seller_rows[anywhere].text),
                       seller_rows[anywhere].message_id,
                       seller_rows[anywhere].message_order)
       ELSE DialogEval(FALSE, reason_code_for_rule(rule_key, FALSE), <<>>, NullInt, NullInt)

rule_eval_for_dialog(rule_key, seller_rows) ==
    LET window == IF Len(seller_rows) < 3 THEN Len(seller_rows) ELSE 3
        early == first_match(rule_key, seller_rows, window)
        anywhere == first_match(rule_key, seller_rows, Len(seller_rows))
    IN IF rule_key = "greeting"
       THEN IF early # 0
            THEN DialogEval(TRUE, "greeting_present",
                            first_word(seller_rows[early].text),
                            seller_rows[early].message_id,
                            seller_rows[early].message_order)
            ELSE IF anywhere # 0
            THEN DialogEval(FALSE, "greeting_late", <<>>, NullInt, NullInt)
            ELSE DialogEval(FALSE, "greeting_missing", <<>>, NullInt, NullInt)
       ELSE IF anywhere # 0
       THEN DialogEval(TRUE, reason_code_for_rule(rule_key, TRUE),
                       first_word(seller_rows[anywhere].text),
                       seller_rows[anywhere].message_id,
                       seller_rows[anywhere].message_order)
       ELSE DialogEval(FALSE, reason_code_for_rule(rule_key, FALSE), <<>>, NullInt, NullInt)

-----------------------------------------------------------------------------
(* llm.py: LLMClient.call_json_schema *)

NoPayload == [k \in {} |-> 0]

\* What the provider does with one request: raises, or returns output text
\* that is not JSON, or returns a JSON payload.
ProviderRaises(text) == [kind |-> "exception", text |-> text, payload |-> NoPayload]
ProviderGarbage == [kind |-> "not_json", text |-> "", payload |-> NoPayload]
ProviderReturns(payload) == [kind |-> "json", text |-> "", payload |-> payload]

_looks_like_schema_error(text) ==
    text \in {"invalid_json_schema", "invalid schema for response_format",
              "text.format.schema", "json_parse_failed", "validation_failed",
              "schema_contract_failed"}

CallResult(parsed, parse_ok, validation_ok, error_message, is_schema_error, is_live_error) ==
    [parsed |-> parsed, parse_ok |-> parse_ok, validation_ok |-> validation_ok,
     error_message |-> error_message, is_schema_error |-> is_schema_error,
     is_live_error |-> is_live_error]

\* The CallResult of one call; error_message is the error's prefix ("" = none).
call_json_schema(kind, keys, response) ==
    IF response.kind = "exception"
    THEN CallResult(NoPayload, FALSE, FALSE, "live_call_failed",
                    _looks_like_schema_error(response.text), TRUE)
    ELSE IF response.kind = "not_json"
    THEN CallResult(NoPayload, FALSE, FALSE, "json_parse_failed", TRUE, FALSE)
    ELSE IF response.kind = "json_null"
    THEN CallResult(NoPayload, TRUE, FALSE, "", FALSE, FALSE)
    ELSE IF bundle_model_validate(kind, keys, response.payload)
    THEN CallResult(response.payload, TRUE, TRUE, "", FALSE, FALSE)
    ELSE CallResult(NoPayload, TRUE, FALSE, "validation_failed", TRUE, FALSE)

\* lines 43-59, over a schema node [type, names, required, additional,
\* children]: the names of its properties, the required list ({"<none>"} = no
\* list), additionalProperties ("false", "true" or "absent") and the schemas
\* below it; every object node lists each property as required and forbids
\* additional properties; TRUE when nothing is raised
RECURSIVE _assert_openai_schema_contract(_)
_assert_openai_schema_contract(schema) ==
    /\ schema.type = "object" =>
          /\ schema.required # {"<none>"}
          /\ schema.names \subseteq schema.required
          /\ schema.additional = "false"
    /\ \A i \in DOMAIN schema.children :
          _assert_openai_schema_contract(schema.children[i])

\* lines 76-219 with the contract check and the missing client: the
\* CallResult, and whether responses.create was called
LLMClient_call_json_schema(schema, is_live, kind, keys, response) ==
    IF ~_assert_openai_schema_contract(schema)
    THEN [result |-> CallResult(NoPayload, FALSE, FALSE, "schema_contract_failed",
                                TRUE, FALSE),
          provider_called |-> FALSE]
    ELSE IF ~is_live
    THEN [result |-> CallResult(NoPayload, FALSE, FALSE, "live_call_failed",
                                FALSE, TRUE),
          provider_called |-> FALSE]
    ELSE [result |-> call_json_schema(kind, keys, response),
          provider_called |-> TRUE]

\* a log that keeps only the calls that succeeded
insert_llm_call_ok_only(log, row) ==
    IF row.error_message = "" THEN Append(log, row) ELSE log

\* lines 178-210: the INSERT INTO llm_calls and the commit, reached on every path
insert_llm_call(log, row) == Append(log, row)

\* The llm_calls row the call inserts (and commits) whatever its outcome.
LlmCallRow(run_id, phase, conversation_id, message_id, attempt, response, result) ==
    [run_id |-> run_id, phase |-> phase, rule_key |-> "bundle",
     conversation_id |-> conversation_id, message_id |-> message_id,
     attempt |-> attempt, extracted_json |-> response,
     parse_ok |-> result.parse_ok, validation_ok |-> result.validation_ok,
     error_message |-> result.error_message]

-----------------------------------------------------------------------------
(* scan_runner.py: helpers of run_scan *)

ScanRanges == {<<-1, 0>>, <<1, 0>>, <<3, 3>>, <<0, 0>>, <<1, 1>>, <<0, 4>>, <<2, 4>>}

conversation_messages(conversation_id) ==
    {m \in messages : m.conversation_id = conversation_id}

\* the checks without the one of conversation_to
load_messages_error_no_upper_check(conversation_from, conversation_to) ==
    LET total == Cardinality(conversations)
    IN IF conversation_from < 0 THEN "conversation_from must be >= 0"
       ELSE IF total = 0 THEN "no conversations in db"
       ELSE IF conversation_from >= total THEN "conversation_from is out of range"
       ELSE ""

\* load_messages_for_range: "" when the range selects something, else the error
load_messages_error(conversation_from, conversation_to) ==
    LET total == Cardinality(conversations)
        ids == {c \in conversations :
                  LET before == Cardinality({d \in conversations : d < c})
                  IN before >= conversation_from /\ before <= conversation_to}
    IN IF conversation_from < 0 THEN "conversation_from must be >= 0"
       ELSE IF conversation_to < conversation_from
            THEN "conversation_to must be >= conversation_from"
       ELSE IF total = 0 THEN "no conversations in db"
       ELSE IF conversation_from >= total THEN "conversation_from is out of range"
       ELSE IF ids = {} THEN "no conversations selected"
       ELSE IF {m \in messages : m.conversation_id \in ids} = {}
            THEN "selected conversations contain no messages"
       ELSE ""

\* the selected ids handed over in descending order
load_messages_for_range_descending(conversation_from, conversation_to) ==
    LET ids == SortedInts({c \in conversations :
                  LET before == Cardinality({d \in conversations : d < c})
                  IN before >= conversation_from /\ before <= conversation_to})
    IN [i \in DOMAIN ids |-> ids[Len(ids) + 1 - i]]

\* the ids of SELECT ... ORDER BY conversation_id LIMIT to-from+1 OFFSET from
load_messages_for_range(conversation_from, conversation_to) ==
    SortedInts({c \in conversations :
                  LET before == Cardinality({d \in conversations : d < c})
                  IN before >= conversation_from /\ before <= conversation_to})

ZeroCounters ==
    [evaluated_conversations |-> 0, skipped_conversations_without_seller |-> 0,
     processed |-> 0, inserted |-> 0, judged |-> 0,
     schema_errors |-> 0, non_schema_errors |-> 0]

NoFrac == <<0, 0>>

\* summary_json; a key that is absent holds "", NullInt, NoRun or NoFrac
Summary(metrics_version, counters, judge_coverage, canonical_run_id, error) ==
    [metrics_version |-> metrics_version, counters |-> counters,
     judge_coverage |-> judge_coverage, canonical_run_id |-> canonical_run_id,
     error |-> error]

NoCounters ==
    [evaluated_conversations |-> NullInt, skipped_conversations_without_seller |-> NullInt,
     processed |-> NullInt, inserted |-> NullInt, judged |-> NullInt,
     schema_errors |-> NullInt, non_schema_errors |-> NullInt]

\* '{}', the summary _insert_run writes
EmptySummary == Summary("", NoCounters, NoFrac, NoRun, "")

RunRow(conversation_from, conversation_to, selected, status, started, summary) ==
    [conversation_from |-> conversation_from, conversation_to |-> conversation_to,
     selected_conversations |-> selected, status |-> status,
     started_at_utc |-> started, summary_json |-> summary]

_run_metrics_version(run_id) ==
    IF run_id = NoRun THEN ""
    ELSE IF run_id \notin DOMAIN scan_runs THEN ""
    ELSE scan_runs[run_id].summary_json.metrics_version

\* the pointer moved to every successful run
canonical_after_scan_latest(canonical_run_id, run_id) == run_id

\* lines 430-434: the canonical pointer a successful scan leaves
canonical_after_scan(canonical_run_id, run_id) ==
    IF canonical_run_id = NoRun \/ _run_metrics_version(canonical_run_id) # METRICS_VERSION
    THEN run_id
    ELSE canonical_run_id

\* the evidence check without the comparison of the anchor's order
evidence_error_no_order(rule_key, v, seller_catalog, greeting_window_ids) ==
    LET evidence_quote == strip(v.evidence_quote)
        anchors == {a \in Range(seller_catalog) : a.message_id = v.evidence_message_id}
        anchor == CHOOSE a \in anchors : TRUE
    IN IF ~v.hit THEN ""
       ELSE IF v.evidence_message_id = NullInt \/ v.evidence_message_order = NullInt
            THEN "evidence anchor is missing"
       ELSE IF anchors = {} THEN "evidence_message_id is not seller message"
       ELSE IF evidence_quote = <<>> \/ ~str_in(evidence_quote, anchor.text)
            THEN "evidence_quote is not substring of seller_text"
       ELSE IF rule_key = "greeting" /\ v.evidence_message_id \notin greeting_window_ids
            THEN "greeting evidence is outside first seller window"
       ELSE ""

\* lines 311-349: the evidence check of one rule's verdict; "" = accepted
evidence_error(rule_key, v, seller_catalog, greeting_window_ids) ==
    LET evidence_quote == strip(v.evidence_quote)
        anchors == {a \in Range(seller_catalog) : a.message_id = v.evidence_message_id}
        anchor == CHOOSE a \in anchors : TRUE
    IN IF ~v.hit THEN ""
       ELSE IF v.evidence_message_id = NullInt \/ v.evidence_message_order = NullInt
            THEN "evidence anchor is missing"
       ELSE IF anchors = {} THEN "evidence_message_id is not seller message"
       ELSE IF anchor.message_order # v.evidence_message_order
            THEN "evidence_message_order mismatch"
       ELSE IF evidence_quote = <<>> \/ ~str_in(evidence_quote, anchor.text)
            THEN "evidence_quote is not substring of seller_text"
       ELSE IF rule_key = "greeting" /\ v.evidence_message_id \notin greeting_window_ids
            THEN "greeting evidence is outside first seller window"
       ELSE ""

\* the loop over the rules raises at the first verdict that fails
RECURSIVE first_evidence_error(_, _, _, _)
first_evidence_error(rules, eval_by_rule, seller_catalog, greeting_window_ids) ==
    IF rules = <<>> THEN ""
    ELSE LET e == evidence_error(Head(rules), eval_by_rule[Head(rules)],
                                 seller_catalog, greeting_window_ids)
         IN IF e # "" THEN e
            ELSE first_evidence_error(Tail(rules), eval_by_rule,
                                      seller_catalog, greeting_window_ids)

\* the row without its judge label
ResultRow_NoJudgeLabel(result_id, run_id, conversation_id, rule_key, eval_result, judge_result) ==
    [result_id |-> result_id,
     run_id |-> run_id, conversation_id |-> conversation_id, rule_key |-> rule_key,
     eval_hit |-> IF eval_result.hit THEN 1 ELSE 0,
     evidence_quote |-> eval_result.evidence_quote,
     evidence_message_id |-> eval_result.evidence_message_id,
     evidence_message_order |-> eval_result.evidence_message_order,
     judge_expected_hit |-> NullInt,
     judge_label |-> NullInt]

\* lines 387-420: the row run_scan inserts for one rule; result_id is the
\* table's key, here the next id above the rows present
ResultRow(result_id, run_id, conversation_id, rule_key, eval_result, judge_result) ==
    [result_id |-> result_id,
     run_id |-> run_id, conversation_id |-> conversation_id, rule_key |-> rule_key,
     eval_hit |-> IF eval_result.hit THEN 1 ELSE 0,
     evidence_quote |-> eval_result.evidence_quote,
     evidence_message_id |-> eval_result.evidence_message_id,
     evidence_message_order |-> eval_result.evidence_message_order,
     judge_expected_hit |-> IF judge_result.expected_hit THEN 1 ELSE 0,
     judge_label |-> IF judge_result.label THEN 1 ELSE 0]

MaxResultId(results) ==
    IF results = {} THEN 0
    ELSE CHOOSE n \in {r.result_id : r \in results} :
            \A r \in results : r.result_id <= n

\* the loop writing rows only for the rules the evaluator reported a hit for
RECURSIVE insert_results_hits_only(_, _, _, _, _, _)
insert_results_hits_only(results, rules, run_id, conv_id, eval_by_rule, judge_by_rule) ==
    IF rules = <<>> THEN results
    ELSE insert_results_hits_only(
            IF eval_by_rule[Head(rules)].hit
            THEN results \cup {ResultRow(MaxResultId(results) + 1, run_id, conv_id,
                                         Head(rules), eval_by_rule[Head(rules)],
                                         judge_by_rule[Head(rules)])}
            ELSE results,
            Tail(rules), run_id, conv_id, eval_by_rule, judge_by_rule)

\* the loop of lines 387-420 over the rules, in registry order
RECURSIVE insert_results(_, _, _, _, _, _)
insert_results(results, rules, run_id, conv_id, eval_by_rule, judge_by_rule) ==
    IF rules = <<>> THEN results
    ELSE insert_results(
            results \cup {ResultRow(MaxResultId(results) + 1, run_id, conv_id, Head(rules),
                                    eval_by_rule[Head(rules)], judge_by_rule[Head(rules)])},
            Tail(rules), run_id, conv_id, eval_by_rule, judge_by_rule)

\* every LLM error counted as a schema error
count_llm_error_as_schema(counters, is_schema_error) ==
    [counters EXCEPT !.schema_errors = @ + 1]

\* lines 296-300 and 372-376: the counter an LLM error is counted under
count_llm_error(counters, is_schema_error) ==
    IF is_schema_error
    THEN [counters EXCEPT !.schema_errors = @ + 1]
    ELSE [counters EXCEPT !.non_schema_errors = @ + 1]

\* _llm_error_or_raise: the text of the error raised
_llm_error_or_raise(phase, is_schema_error) ==
    (IF is_schema_error THEN "schema_error" ELSE "live_error") \o " phase=" \o phase

\* _compute_metrics: the rows of one run, one per registry rule
MetricRow(run_id, rule_key, results) ==
    LET rows == {r \in results : r.run_id = run_id /\ r.rule_key = rule_key}
        eval_total == Cardinality(rows)
        eval_true == Cardinality({r \in rows : r.eval_hit = 1})
        judge_true == Cardinality({r \in rows : r.judge_label = 1})
        judge_false == Cardinality({r \in rows : r.judge_label = 0})
        judged_total == Cardinality({r \in rows : r.judge_label # NullInt})
    IN [run_id |-> run_id, rule_key |-> rule_key,
        eval_total |-> eval_total, eval_true |-> eval_true,
        evaluator_hit_rate |-> _safe_div(eval_true, eval_total),
        judge_correctness |-> _safe_div(judge_true, judged_total),
        judge_coverage |-> _safe_div(judged_total, eval_total),
        judged_total |-> judged_total, judge_true |-> judge_true,
        judge_false |-> judge_false]

\* the recomputation without its DELETE, for the rules that have rows only
_compute_metrics_partial(metrics, run_id, results) ==
    metrics \cup {MetricRow(run_id, k, results) :
                     k \in {r.rule_key : r \in {x \in results : x.run_id = run_id}}}

_compute_metrics(metrics, run_id, results) ==
    {m \in metrics : m.run_id # run_id}
        \cup {MetricRow(run_id, k, results) : k \in rule_keys}

-----------------------------------------------------------------------------
(* What the model lets the provider answer *)

NoHit == Verdict(FALSE, <<>>, NullInt, NullInt)

HitOn(a) == Verdict(TRUE, <<Head(a.text)>>, a.message_id, a.message_order)

AllRules(v) == [k \in rule_keys |-> v]

\* verdicts of every shape the evidence check tells apart, for one conversation
EvidenceVerdicts(conversation_id) ==
    LET cat == seller_message_refs(conversation_messages(conversation_id))
        first == cat[1]
        others == {m \in messages :
                     \/ m.conversation_id # conversation_id
                     \/ ~is_seller_message(m.speaker_label)}
    IN {NoHit, Verdict(FALSE, <<"a">>, NullInt, NullInt)}
       \cup {HitOn(a) : a \in Range(cat)}
       \cup {Verdict(TRUE, <<Space, Head(first.text)>>, first.message_id, first.message_order),
             Verdict(TRUE, <<Head(first.text)>>, first.message_id, first.message_order + 1),
             Verdict(TRUE, <<"z">>, first.message_id, first.message_order),
             Verdict(TRUE, <<Space>>, first.message_id, first.message_order),
             Verdict(TRUE, <<Head(first.text)>>, NullInt, NullInt),
             Verdict(FALSE, <<>>, first.message_id, first.message_order)}
       \cup {Verdict(TRUE, <<Head(m.text)>>, m.message_id, m.message_order) : m \in others}

\* bundles in which one rule's verdict ranges over EvidenceVerdicts
EvidenceEvalResponses(conversation_id) ==
    LET cat == seller_message_refs(conversation_messages(conversation_id))
        bases == {AllRules(NoHit), AllRules(HitOn(cat[1]))}
    IN {ProviderRaises("service_unavailable"), ProviderRaises("invalid_json_schema"),
        ProviderGarbage}
       \cup {ProviderReturns([b EXCEPT ![k] = v]) :
               b \in bases, k \in rule_keys, v \in EvidenceVerdicts(conversation_id)}

EvidenceJudgeResponses ==
    {ProviderRaises("service_unavailable"),
     ProviderReturns(AllRules(JudgeVerdict(TRUE, TRUE)))}

EvalResponses(conversation_id) ==
    LET cat == seller_message_refs(conversation_messages(conversation_id))
    IN {ProviderRaises("service_unavailable"), ProviderRaises("invalid_json_schema"),
        ProviderReturns([AllRules(HitOn(cat[1])) EXCEPT !["empathy"] = NoHit]),
        ProviderReturns([AllRules(NoHit) EXCEPT
            !["upsell"] = Verdict(TRUE, <<"z">>, cat[1].message_id, cat[1].message_order)])}

JudgeResponses ==
    {ProviderRaises("service_unavailable"), ProviderGarbage,
     ProviderReturns(AllRules(JudgeVerdict(TRUE, TRUE))),
     ProviderReturns(AllRules(JudgeVerdict(FALSE, FALSE)))}

-----------------------------------------------------------------------------
(* State *)

IdleRun ==
    [run_id |-> NoRun, conversation_ids |-> <<>>, pos |-> 0,
     counters |-> ZeroCounters, eval_parsed |-> NoPayload]

NoReport ==
    [run_id |-> NoRun, canonical_run_id |-> NoRun, metrics_version |-> "",
     note |-> "", raised |-> FALSE,
     delta |-> [k \in rule_keys |-> [canonical |-> <<0, 1>>, current |-> <<0, 1>>]]]

NoCall == [run_id |-> NoRun, outcome |-> "none"]

NoProbe == [fn |-> "none"]

ZeroMessageCounters ==
    [processed |-> 0, inserted |-> 0, judged |-> 0, skipped_due_to_errors |-> 0,
     evidence_mismatch_skipped |-> 0, schema_errors |-> 0, non_schema_errors |-> 0]

\* runs and results are the tables as pipeline.py writes them (run_id and
\* result_id are the positions); step_calls are the LLM calls of the latest step
IdleMessageScan ==
    [pc |-> "idle", run_id |-> 0, cases |-> <<>>, pos |-> 0, judge_rows |-> <<>>,
     counters |-> ZeroMessageCounters, runs |-> <<>>, results |-> <<>>,
     metrics |-> {}, canonical_run_id |-> 0, step_calls |-> <<>>]

\* a store an earlier release scanned twice: two successful runs over the one
\* conversation without seller turns, tagged with that release's version, the
\* first of them pinned as canonical
LegacyCounters ==
    [ZeroCounters EXCEPT !.skipped_conversations_without_seller = 1]

LegacyRuns ==
    [r \in {LegacyFirst, LegacySecond} |->
        RunRow(1, 1, 1, "success", IF r = LegacyFirst THEN -2 ELSE -1,
               Summary(LegacyVersion, LegacyCounters, <<0, 1>>, LegacyFirst, ""))]

NoRuns == [r \in {} |-> 0]

InitStore(convs, legacy) ==
    /\ conversations = convs
    /\ messages = {m \in Dataset : m.conversation_id \in convs}
    /\ scan_runs = IF legacy THEN LegacyRuns ELSE NoRuns
    /\ scan_results = {}
    /\ scan_metrics = IF legacy
                      THEN _compute_metrics(_compute_metrics({}, LegacyFirst, {}),
                                            LegacySecond, {})
                      ELSE {}
    /\ llm_calls = <<>>
    /\ app_state = IF legacy THEN LegacyFirst ELSE NoRun
    /\ clock = 0
    /\ pc = "idle"
    /\ run = IdleRun
    /\ last_call = NoCall
    /\ report = NoReport
    /\ probe = NoProbe
    /\ message_scan = IdleMessageScan
    /\ durable = {}

Init == \E legacy \in BOOLEAN : InitStore({1, 2, 3}, legacy)

-----------------------------------------------------------------------------
(* run_scan, in the steps its two blocking LLM calls cut it into *)

\* the exception path without the finally block: the row keeps its status
Raise_NoFinally(counters, error) ==
    /\ scan_runs' = [scan_runs EXCEPT ![run.run_id] =
          [@ EXCEPT !.summary_json = Summary(METRICS_VERSION, counters, NoFrac, NoRun, error)]]
    /\ pc' = "idle"
    /\ run' = IdleRun
    /\ last_call' = [run_id |-> run.run_id, outcome |-> "raised"]

\* the finally block after an exception: _finish_run(status="failed")
Raise(counters, error) ==
    /\ scan_runs' = [scan_runs EXCEPT ![run.run_id] =
          [@ EXCEPT !.status = "failed",
                    !.summary_json = Summary(METRICS_VERSION, counters, NoFrac, NoRun, error)]]
    /\ pc' = "idle"
    /\ run' = IdleRun
    /\ last_call' = [run_id |-> run.run_id, outcome |-> "raised"]

\* lines 189-216: a precondition fails, or the run id is taken: nothing is written
StartScanRejected(live, range, id) ==
    /\ pc = "idle"
    /\ \/ ~live
       \/ load_messages_error(range[1], range[2]) # ""
       \/ id \in DOMAIN scan_runs
    /\ last_call' = [run_id |-> NoRun, outcome |-> "raised"]
    /\ report' = NoReport
    /\ UNCHANGED <<conversations, messages, scan_runs, scan_results, scan_metrics,
                   llm_calls, app_state, clock, pc, run>>
    /\ UNCHANGED <<probe, message_scan>>
    /\ UNCHANGED durable

\* lines 189-250: the preconditions hold, _insert_run writes the 'running' row
StartScan(max_runs, live, range, id) ==
    /\ pc = "idle"
    /\ clock < max_runs
    /\ live
    /\ load_messages_error(range[1], range[2]) = ""
    /\ id \notin DOMAIN scan_runs
    /\ LET ids == load_messages_for_range(range[1], range[2])
       IN /\ scan_runs' = [r \in DOMAIN scan_runs \cup {id} |->
                IF r = id
                THEN RunRow(range[1], range[2], Len(ids), "running", clock + 1, EmptySummary)
                ELSE scan_runs[r]]
          /\ run' = [run_id |-> id, conversation_ids |-> ids, pos |-> 1,
                     counters |-> ZeroCounters, eval_parsed |-> NoPayload]
    /\ clock' = clock + 1
    /\ pc' = "conversation"
    /\ last_call' = NoCall
    /\ report' = NoReport
    /\ UNCHANGED <<conversations, messages, scan_results, scan_metrics,
                   llm_calls, app_state>>
    /\ UNCHANGED <<probe, message_scan>>
    /\ durable' = scan_results'

AtConversation ==
    /\ pc = "conversation"
    /\ run.pos <= Len(run.conversation_ids)

conversation_id == run.conversation_ids[run.pos]

seller_catalog == seller_message_refs(conversation_messages(conversation_id))

greeting_window_ids ==
    {a.message_id : a \in Range(greeting_window_refs(conversation_messages(conversation_id),
                                                      greeting_window_max))}

\* a skip that counts the conversation as evaluated
SkipConversation_Evaluated ==
    /\ AtConversation
    /\ seller_catalog = <<>>
    /\ run' = [run EXCEPT !.pos = @ + 1,
                          !.counters.skipped_conversations_without_seller = @ + 1,
                          !.counters.evaluated_conversations = @ + 1,
                          !.counters.processed = @ + Len(all_rules)]
    /\ UNCHANGED <<conversations, messages, scan_runs, scan_results, scan_metrics,
                   llm_calls, app_state, clock, pc, last_call, report>>
    /\ UNCHANGED <<probe, message_scan>>
    /\ UNCHANGED durable

\* lines 256-259: no seller message, the conversation is skipped and counted
SkipConversation ==
    /\ AtConversation
    /\ seller_catalog = <<>>
    /\ run' = [run EXCEPT !.pos = @ + 1,
                          !.counters.skipped_conversations_without_seller = @ + 1]
    /\ UNCHANGED <<conversations, messages, scan_runs, scan_results, scan_metrics,
                   llm_calls, app_state, clock, pc, last_call, report>>
    /\ UNCHANGED <<probe, message_scan>>
    /\ UNCHANGED durable

\* lines 261-349: the evaluator call, its error handling and the evidence check
EvaluatorCall(response) ==
    /\ AtConversation
    /\ seller_catalog # <<>>
    /\ LET eval_call == call_json_schema("evaluator", rule_keys, response)
           counters == [run.counters EXCEPT
                           !.evaluated_conversations = @ + 1,
                           !.processed = @ + Len(all_rules)]
           evidence == first_evidence_error(all_rules, eval_call.parsed,
                                            seller_catalog, greeting_window_ids)
       IN /\ llm_calls' = insert_llm_call(llm_calls,
                LlmCallRow(run.run_id, "evaluator", conversation_id,
                           seller_catalog[1].message_id, 1, response, eval_call))
          /\ IF eval_call.error_message # ""
             THEN Raise(count_llm_error(counters, eval_call.is_schema_error),
                        _llm_error_or_raise("evaluator", eval_call.is_schema_error))
             ELSE IF evidence # ""
             THEN Raise([counters EXCEPT !.schema_errors = @ + 1],
                        "schema_error evaluator " \o evidence)
             ELSE /\ run' = [run EXCEPT !.counters = counters,
                                        !.eval_parsed = eval_call.parsed]
                  /\ pc' = "judge"
                  /\ UNCHANGED <<scan_runs, last_call>>
    /\ UNCHANGED <<conversations, messages, scan_results, scan_metrics,
                   app_state, clock, report>>
    /\ UNCHANGED <<probe, message_scan>>
    /\ durable' = scan_results'

\* the judge step with a retry: a failed judge call is logged and repeated
JudgeCall_Retry(response) ==
    /\ pc = "judge"
    /\ LET judge_call == call_json_schema("judge", rule_keys, response)
       IN /\ llm_calls' = insert_llm_call(llm_calls,
                LlmCallRow(run.run_id, "judge", conversation_id,
                           seller_catalog[1].message_id, 1, response, judge_call))
          /\ IF judge_call.error_message # ""
             THEN UNCHANGED <<scan_results, run, pc, scan_runs, last_call>>
             ELSE /\ scan_results' = insert_results(scan_results, all_rules, run.run_id,
                                                     conversation_id, run.eval_parsed,
                                                     judge_call.parsed)
                  /\ run' = [run EXCEPT !.pos = @ + 1,
                                        !.eval_parsed = NoPayload,
                                        !.counters.inserted = @ + Len(all_rules),
                                        !.counters.judged = @ + Len(all_rules)]
                  /\ pc' = "conversation"
                  /\ UNCHANGED <<scan_runs, last_call>>
    /\ UNCHANGED <<conversations, messages, scan_metrics, app_state, clock, report>>
    /\ UNCHANGED <<probe, message_scan>>
    /\ durable' = scan_results

\* lines 351-420: the judge call, its error handling and the rows of the rules
JudgeCall(response) ==
    /\ pc = "judge"
    /\ LET judge_call == call_json_schema("judge", rule_keys, response)
           counters == run.counters
       IN /\ llm_calls' = insert_llm_call(llm_calls,
                LlmCallRow(run.run_id, "judge", conversation_id,
                           seller_catalog[1].message_id, 1, response, judge_call))
          /\ IF judge_call.error_message # ""
             THEN /\ Raise(count_llm_error(counters, judge_call.is_schema_error),
                           _llm_error_or_raise("judge", judge_call.is_schema_error))
                  /\ UNCHANGED scan_results
             ELSE /\ scan_results' = insert_results(scan_results, all_rules, run.run_id,
                                                     conversation_id, run.eval_parsed,
                                                     judge_call.parsed)
                  /\ run' = [run EXCEPT !.pos = @ + 1,
                                        !.eval_parsed = NoPayload,
                                        !.counters.inserted = @ + Len(all_rules),
                                        !.counters.judged = @ + Len(all_rules)]
                  /\ pc' = "conversation"
                  /\ UNCHANGED <<scan_runs, last_call>>
    /\ UNCHANGED <<conversations, messages, scan_metrics, app_state, clock, report>>
    /\ UNCHANGED <<probe, message_scan>>
    /\ durable' = scan_results

\* lines 421-449 and the finally block: metrics, the coverage invariant, the
\* canonical pointer, the summary and the final status
FinishScan ==
    /\ pc = "conversation"
    /\ run.pos > Len(run.conversation_ids)
    /\ scan_metrics' = _compute_metrics(scan_metrics, run.run_id, scan_results)
    /\ IF run.counters.inserted # run.counters.judged
       THEN /\ Raise(run.counters, "judge coverage must be 1.0 in fixed mode")
            /\ UNCHANGED app_state
       ELSE LET pinned == canonical_after_scan(app_state, run.run_id)
            IN /\ app_state' = pinned
               /\ scan_runs' = [scan_runs EXCEPT ![run.run_id] =
                     [@ EXCEPT !.status = "success",
                               !.summary_json =
                                   Summary(METRICS_VERSION, run.counters,
                                           _safe_div(run.counters.judged, run.counters.inserted),
                                           pinned, "")]]
               /\ pc' = "idle"
               /\ run' = IdleRun
               /\ last_call' = [run_id |-> run.run_id, outcome |-> "returned"]
    /\ UNCHANGED <<conversations, messages, scan_results, llm_calls, clock, report>>
    /\ UNCHANGED <<probe, message_scan>>
    /\ durable' = scan_results'

-----------------------------------------------------------------------------
(* db.py: reset_run_data *)

\* the reset that leaves the row of app_state
ResetRunData_KeepState ==
    /\ pc = "idle"
    /\ scan_runs # NoRuns
    /\ scan_results' = {}
    /\ scan_metrics' = {}
    /\ llm_calls' = <<>>
    /\ scan_runs' = NoRuns
    /\ app_state' = app_state
    /\ last_call' = NoCall
    /\ report' = NoReport
    /\ UNCHANGED <<conversations, messages, clock, pc, run>>
    /\ UNCHANGED <<probe, message_scan>>
    /\ durable' = scan_results'

ResetRunData ==
    /\ pc = "idle"
    /\ scan_runs # NoRuns
    /\ scan_results' = {}
    /\ scan_metrics' = {}
    /\ llm_calls' = <<>>
    /\ scan_runs' = NoRuns
    /\ app_state' = NoRun
    /\ last_call' = NoCall
    /\ report' = NoReport
    /\ UNCHANGED <<conversations, messages, clock, pc, run>>
    /\ UNCHANGED <<probe, message_scan>>
    /\ durable' = scan_results'

\* ingest.py: ingest_csv_dir(replace = TRUE) of the same CSV directory:
\* replace_all_data empties every table, then the rows are loaded again
IngestReplace ==
    /\ pc = "idle"
    /\ scan_results' = {}
    /\ scan_metrics' = {}
    /\ llm_calls' = <<>>
    /\ scan_runs' = NoRuns
    /\ app_state' = NoRun
    /\ conversations' = conversations
    /\ messages' = {m \in Dataset : m.conversation_id \in conversations}
    /\ last_call' = NoCall
    /\ report' = NoReport
    /\ UNCHANGED <<clock, pc, run>>
    /\ UNCHANGED <<probe, message_scan>>
    /\ durable' = scan_results'

\* ingest.py: ingest_csv_dir(replace = FALSE) of the CSV directory: the
\* conversations and messages of the files are inserted, or updated in place
IngestCsvDir ==
    /\ pc = "idle"
    /\ conversations' = conversations \cup {m.conversation_id : m \in Dataset}
    /\ messages' = messages \cup Dataset
    /\ last_call' = NoCall
    /\ report' = NoReport
    /\ UNCHANGED <<scan_runs, scan_results, scan_metrics, llm_calls, app_state,
                   clock, pc, run>>
    /\ UNCHANGED <<probe, message_scan>>
    /\ durable' = scan_results'

-----------------------------------------------------------------------------
(* reporting.py: build_report *)

SuccessfulRuns == {r \in DOMAIN scan_runs : scan_runs[r].status = "success"}

\* ORDER BY started_at_utc DESC LIMIT 1 over the successful runs
LatestSuccessfulRun ==
    CHOOSE r \in SuccessfulRuns :
        \A q \in SuccessfulRuns : scan_runs[q].started_at_utc <= scan_runs[r].started_at_utc

\* a run's judge_correctness per rule; a rule without metric row reads 0.0
_accuracy_map(run_id) ==
    [k \in rule_keys |->
        LET rows == {m \in scan_metrics : m.run_id = run_id /\ m.rule_key = k}
        IN IF rows = {} THEN <<0, 1>> ELSE (CHOOSE m \in rows : TRUE).judge_correctness]

NoteSwitched == "canonical run switched to version-compatible baseline"
NoteFallback == "canonical run fell back to current run due to metrics version mismatch"

\* the selection without the version check on the pinned run
_canonical_run_for_version_pinned(run_id, metrics_version) ==
    LET canonical == app_state
    IN IF canonical # NoRun THEN <<canonical, "">> ELSE <<run_id, NoteFallback>>

\* the selection with ORDER BY started_at_utc DESC
_canonical_run_for_version_latest(run_id, metrics_version) ==
    LET canonical == app_state
        compatible == {r \in SuccessfulRuns :
                         scan_runs[r].summary_json.metrics_version = metrics_version}
        latest == CHOOSE r \in compatible :
                      \A q \in compatible :
                          scan_runs[q].started_at_utc <= scan_runs[r].started_at_utc
    IN IF canonical # NoRun /\ _run_metrics_version(canonical) = metrics_version
       THEN <<canonical, "">>
       ELSE IF compatible # {} THEN <<latest, NoteSwitched>>
       ELSE <<run_id, NoteFallback>>

\* <<canonical run, note>>
_canonical_run_for_version(run_id, metrics_version) ==
    LET canonical == app_state
        compatible == {r \in SuccessfulRuns :
                         scan_runs[r].summary_json.metrics_version = metrics_version}
        earliest == CHOOSE r \in compatible :
                        \A q \in compatible :
                            scan_runs[r].started_at_utc <= scan_runs[q].started_at_utc
    IN IF canonical # NoRun /\ _run_metrics_version(canonical) = metrics_version
       THEN <<canonical, "">>
       ELSE IF compatible # {} THEN <<earliest, NoteSwitched>>
       ELSE <<run_id, NoteFallback>>

BuildReport(run_id_arg) ==
    /\ pc = "idle"
    /\ IF run_id_arg = NoRun /\ SuccessfulRuns = {}
       THEN report' = [NoReport EXCEPT !.raised = TRUE]
       ELSE LET run_id == IF run_id_arg = NoRun THEN LatestSuccessfulRun ELSE run_id_arg
                stored == _run_metrics_version(run_id)
                metrics_version == IF stored # "" THEN stored ELSE METRICS_VERSION
                chosen == _canonical_run_for_version(run_id, metrics_version)
                current == _accuracy_map(run_id)
                canonical == _accuracy_map(chosen[1])
            IN report' = [run_id |-> run_id, canonical_run_id |-> chosen[1],
                          metrics_version |-> metrics_version, note |-> chosen[2],
                          raised |-> FALSE,
                          delta |-> [k \in rule_keys |->
                              [canonical |-> canonical[k], current |-> current[k]]]]
    /\ last_call' = NoCall
    /\ UNCHANGED <<conversations, messages, scan_runs, scan_results, scan_metrics,
                   llm_calls, app_state, clock, pc, run>>
    /\ UNCHANGED <<probe, message_scan>>
    /\ UNCHANGED durable

-----------------------------------------------------------------------------
(* Specifications *)

\* the evaluator step over the answers of the evidence study, or the coarse ones
EvaluatorStep(evidence_study) ==
    /\ AtConversation
    /\ seller_catalog # <<>>
    /\ \E response \in (IF evidence_study THEN EvidenceEvalResponses(conversation_id)
                                           ELSE EvalResponses(conversation_id)) :
          EvaluatorCall(response)

JudgeStep(responses) ==
    /\ pc = "judge"
    /\ \E response \in responses : JudgeCall(response)

DefaultRange == <<0, 4>>

ScanStart(max_runs) ==
    \/ \E range \in ScanRanges, id \in RunIds :
          \/ StartScan(max_runs, TRUE, range, id)
          \/ StartScanRejected(TRUE, range, id)
    \/ \E id \in RunIds : StartScanRejected(FALSE, DefaultRange, id)

Report == \E r \in DOMAIN scan_runs \cup {NoRun} : BuildReport(r)

Next ==
    \/ ScanStart(MaxRuns)
    \/ SkipConversation
    \/ EvaluatorStep(FALSE)
    \/ JudgeStep(JudgeResponses)
    \/ FinishScan
    \/ ResetRunData
    \/ IngestReplace
    \/ Report

Spec == Init /\ [][Next]_vars

NextEvidence ==
    \/ ScanStart(MaxEvidenceRuns)
    \/ SkipConversation
    \/ EvaluatorStep(TRUE)
    \/ JudgeStep(EvidenceJudgeResponses)
    \/ FinishScan

SpecEvidence == InitStore({1, 2}, FALSE) /\ [][NextEvidence]_vars

NextFreshStore ==
    \/ IngestCsvDir
    \/ ScanStart(MaxFreshRuns)
    \/ SkipConversation
    \/ EvaluatorStep(FALSE)
    \/ JudgeStep(JudgeResponses)
    \/ FinishScan

\* init_db leaves the store empty; the dataset is ingested, scans are run
SpecFreshStore == InitStore({}, FALSE) /\ [][NextFreshStore]_vars

\* the process dies during a scan: what the connection had not committed is
\* rolled back, the locals are gone, neither except nor finally runs and the
\* run row keeps the status it had
Crash ==
    /\ pc \in {"conversation", "judge"}
    /\ scan_results' = durable
    /\ pc' = "idle"
    /\ last_call' = [run_id |-> run.run_id, outcome |-> "crashed",
                     conversation_id |-> IF run.pos <= Len(run.conversation_ids)
                                         THEN conversation_id
                                         ELSE run.conversation_ids[Len(run.conversation_ids)]]
    /\ run' = IdleRun
    /\ UNCHANGED <<conversations, messages, scan_runs, scan_metrics, llm_calls,
                   app_state, clock, report, probe, message_scan, durable>>

NextCrash ==
    \/ ScanStart(MaxCrashRuns)
    \/ SkipConversation
    \/ EvaluatorStep(FALSE)
    \/ JudgeStep(JudgeResponses)
    \/ FinishScan
    \/ Crash

SpecCrash == InitStore({1, 2, 3}, FALSE) /\ [][NextCrash]_vars

-----------------------------------------------------------------------------
(* pipeline.py: run_scan, the scan that asks one question per seller message
   and rule, in the steps its blocking LLM calls cut it into *)

\* the (seller message, rule) cases of one conversation, message by message
ConversationCases(c) ==
    LET refs == seller_message_refs(conversation_messages(c))
        n == Len(all_rules)
    IN [i \in 1..(Len(refs) * n) |->
           [conversation_id |-> c,
            message_id |-> refs[((i - 1) \div n) + 1].message_id,
            rule_key |-> all_rules[((i - 1) % n) + 1]]]

RECURSIVE MessageCases(_)
MessageCases(ids) ==
    IF ids = <<>> THEN <<>>
    ELSE ConversationCases(Head(ids)) \o MessageCases(Tail(ids))

\* a warning that counts the error but not the skipped case
_warn_non_schema_uncounted(counters) ==
    [counters EXCEPT !.non_schema_errors = @ + 1]

_warn_non_schema(counters) ==
    [counters EXCEPT !.non_schema_errors = @ + 1,
                     !.skipped_due_to_errors = @ + 1]

MessageCall(phase, case, attempt, outcome) ==
    [phase |-> phase, message_id |-> case.message_id, rule_key |-> case.rule_key,
     attempt |-> attempt, outcome |-> outcome]

MessageResultRow(result_id, run_id, case, eval_hit) ==
    [result_id |-> result_id, run_id |-> run_id,
     conversation_id |-> case.conversation_id, message_id |-> case.message_id,
     rule_key |-> case.rule_key, eval_hit |-> eval_hit, judge_label |-> NullInt]

\* what one evaluator call brings back: an error flagged as schema error, any
\* other error, or a verdict whose evidence passes or fails evidence_error
EvaluatorOutcomes == {"schema_error", "non_schema_error", "hit", "no_hit", "evidence_mismatch"}

JudgeOutcomes == {"schema_error", "non_schema_error", "label_true", "label_false"}

\* raise inside try: except stores the counters and the error, finally
\* _finish_run writes the status still 'failed'
MessageScanRaise(calls, counters) ==
    message_scan' = [message_scan EXCEPT
        !.pc = "idle",
        !.counters = counters,
        !.step_calls = calls,
        !.runs[message_scan.run_id] =
            [@ EXCEPT !.status = "failed",
                      !.summary = [counters |-> counters, error |-> "schema_error",
                                   canonical_run_id |-> 0]]]

\* continue: the case is left, the loop goes on
MessageScanSkip(calls, counters) ==
    message_scan' = [message_scan EXCEPT
        !.pos = @ + 1,
        !.counters = counters,
        !.step_calls = calls]

MessageScanInsert(calls, counters, case, eval_hit) ==
    message_scan' = [message_scan EXCEPT
        !.pos = @ + 1,
        !.counters = [counters EXCEPT !.inserted = @ + 1],
        !.step_calls = calls,
        !.results = Append(@, MessageResultRow(Len(@) + 1, message_scan.run_id,
                                               case, eval_hit))]

\* load_messages_for_range, _insert_run, the counters
MessageScanStart ==
    /\ message_scan.pc = "idle"
    /\ Len(message_scan.runs) < MaxMessageScans
    /\ \E conversation_from \in 0..1, conversation_to \in 0..1 :
          /\ load_messages_error(conversation_from, conversation_to) = ""
          /\ message_scan' = [message_scan EXCEPT
                !.pc = "evaluator",
                !.run_id = Len(message_scan.runs) + 1,
                !.cases = MessageCases(load_messages_for_range(conversation_from,
                                                               conversation_to)),
                !.pos = 1,
                !.judge_rows = <<>>,
                !.counters = ZeroMessageCounters,
                !.step_calls = <<>>,
                !.runs = Append(@, [status |-> "running",
                                    conversation_from |-> conversation_from,
                                    conversation_to |-> conversation_to,
                                    summary |-> [counters |-> ZeroMessageCounters,
                                                 error |-> "",
                                                 canonical_run_id |-> 0]])]
    /\ UNCHANGED <<store, probe>>

\* the evaluator case that gives up the run when the retry fails the
\* evidence check as well
MessageScanEvaluatorCase_FailFast ==
    /\ message_scan.pc = "evaluator"
    /\ message_scan.pos <= Len(message_scan.cases)
    /\ \E first \in EvaluatorOutcomes, second \in EvaluatorOutcomes :
          LET case == message_scan.cases[message_scan.pos]
              counters == [message_scan.counters EXCEPT !.processed = @ + 1]
              call == MessageCall("evaluator", case, 1, first)
              retry == MessageCall("evaluator", case, 2, second)
          IN IF first = "schema_error"
             THEN MessageScanRaise(<<call>>, [counters EXCEPT !.schema_errors = @ + 1])
             ELSE IF first = "non_schema_error"
             THEN MessageScanSkip(<<call>>, _warn_non_schema(counters))
             ELSE IF first # "evidence_mismatch"
             THEN MessageScanInsert(<<call>>, counters, case,
                                    IF first = "hit" THEN 1 ELSE 0)
             ELSE IF second = "schema_error"
             THEN MessageScanRaise(<<call, retry>>,
                                   [counters EXCEPT !.schema_errors = @ + 1])
             ELSE IF second = "non_schema_error"
             THEN MessageScanSkip(<<call, retry>>, _warn_non_schema(counters))
             ELSE IF second = "evidence_mismatch"
             THEN MessageScanRaise(<<call, retry>>,
                                   [counters EXCEPT !.schema_errors = @ + 1])
             ELSE MessageScanInsert(<<call, retry>>, counters, case,
                                    IF second = "hit" THEN 1 ELSE 0)
    /\ UNCHANGED <<store, probe>>

\* lines 232-326: one case of the evaluator loop, with its retry
MessageScanEvaluatorCase ==
    /\ message_scan.pc = "evaluator"
    /\ message_scan.pos <= Len(message_scan.cases)
    /\ \E first \in EvaluatorOutcomes, second \in EvaluatorOutcomes :
          LET case == message_scan.cases[message_scan.pos]
              counters == [message_scan.counters EXCEPT !.processed = @ + 1]
              call == MessageCall("evaluator", case, 1, first)
              retry == MessageCall("evaluator", case, 2, second)
          IN IF first = "schema_error"
             THEN MessageScanRaise(<<call>>, [counters EXCEPT !.schema_errors = @ + 1])
             ELSE IF first = "non_schema_error"
             THEN MessageScanSkip(<<call>>, _warn_non_schema(counters))
             ELSE IF first # "evidence_mismatch"
             THEN MessageScanInsert(<<call>>, counters, case,
                                    IF first = "hit" THEN 1 ELSE 0)
             ELSE IF second = "schema_error"
             THEN MessageScanRaise(<<call, retry>>,
                                   [counters EXCEPT !.schema_errors = @ + 1])
             ELSE IF second = "non_schema_error"
             THEN MessageScanSkip(<<call, retry>>, _warn_non_schema(counters))
             ELSE IF second = "evidence_mismatch"
             THEN MessageScanSkip(<<call, retry>>,
                     _warn_non_schema([counters EXCEPT
                                          !.evidence_mismatch_skipped = @ + 1]))
             ELSE MessageScanInsert(<<call, retry>>, counters, case,
                                    IF second = "hit" THEN 1 ELSE 0)
    /\ UNCHANGED <<store, probe>>

\* lines 327-342: the rows of the run, by result_id, for the judge loop
MessageScanLoadJudgeRows ==
    /\ message_scan.pc = "evaluator"
    /\ message_scan.pos > Len(message_scan.cases)
    /\ LET mine(row) == row.run_id = message_scan.run_id
       IN message_scan' = [message_scan EXCEPT
             !.pc = "judge",
             !.pos = 1,
             !.step_calls = <<>>,
             !.judge_rows = SelectSeq(message_scan.results, mine)]
    /\ UNCHANGED <<store, probe>>

\* lines 344-404: one row of the judge loop
MessageScanJudgeCase ==
    /\ message_scan.pc = "judge"
    /\ message_scan.pos <= Len(message_scan.judge_rows)
    /\ \E outcome \in JudgeOutcomes :
          LET row == message_scan.judge_rows[message_scan.pos]
              call == MessageCall("judge", row, 1, outcome)
              counters == message_scan.counters
          IN IF outcome = "schema_error"
             THEN MessageScanRaise(<<call>>, [counters EXCEPT !.schema_errors = @ + 1])
             ELSE IF outcome = "non_schema_error"
             THEN MessageScanSkip(<<call>>, _warn_non_schema(counters))
             ELSE message_scan' = [message_scan EXCEPT
                     !.pos = @ + 1,
                     !.counters = [counters EXCEPT !.judged = @ + 1],
                     !.step_calls = <<call>>,
                     !.results[row.result_id].judge_label =
                         IF outcome = "label_true" THEN 1 ELSE 0]
    /\ UNCHANGED <<store, probe>>

\* pipeline.py _compute_metrics: the confusion counts of one rule
MessageMetricRow(run_id, rule_key, results) ==
    LET rows == {results[i] : i \in {j \in DOMAIN results :
                     results[j].run_id = run_id /\ results[j].rule_key = rule_key}}
        count(hit, label) ==
            Cardinality({r \in rows : r.eval_hit = hit /\ r.judge_label = label})
    IN [run_id |-> run_id, rule_key |-> rule_key,
        tp |-> count(1, 1), fp |-> count(1, 0), tn |-> count(0, 0), fn |-> count(0, 1),
        total |-> Cardinality({r \in rows : r.judge_label # NullInt})]

\* lines 405-424: metrics, the canonical pointer, the summary, status success
MessageScanFinish ==
    /\ message_scan.pc = "judge"
    /\ message_scan.pos > Len(message_scan.judge_rows)
    /\ LET run_id == message_scan.run_id
           canonical_run_id == IF message_scan.canonical_run_id = 0 THEN run_id
                               ELSE message_scan.canonical_run_id
       IN message_scan' = [message_scan EXCEPT
             !.pc = "idle",
             !.step_calls = <<>>,
             !.metrics = {m \in @ : m.run_id # run_id}
                            \cup {MessageMetricRow(run_id, k, message_scan.results) :
                                     k \in rule_keys},
             !.canonical_run_id = canonical_run_id,
             !.runs[run_id] =
                 [@ EXCEPT !.status = "success",
                           !.summary = [counters |-> message_scan.counters,
                                        error |-> "",
                                        canonical_run_id |-> canonical_run_id]]]
    /\ UNCHANGED <<store, probe>>

NextMessageScan ==
    \/ MessageScanStart
    \/ MessageScanEvaluatorCase
    \/ MessageScanLoadJudgeRows
    \/ MessageScanJudgeCase
    \/ MessageScanFinish

SpecMessageScan == InitStore({2, 3}, FALSE) /\ [][NextMessageScan]_vars

-----------------------------------------------------------------------------
(* Run lifecycle *)

\* the run a call of run_scan is working on is 'running'; every other run is
\* finalized, and the run of the call that ended last is 'success' exactly
\* when the call returned and 'failed' exactly when an exception escaped
RunStatusMatchesOutcome ==
    /\ \A r \in DOMAIN scan_runs :
          /\ scan_runs[r].status \in {"running", "success", "failed"}
          /\ scan_runs[r].status = "running" <=> (pc # "idle" /\ r = run.run_id)
    /\ pc # "idle" => run.run_id \in DOMAIN scan_runs
    /\ (pc = "idle" /\ last_call.run_id # NoRun) =>
          /\ last_call.run_id \in DOMAIN scan_runs
          /\ scan_runs[last_call.run_id].status = "success" <=> last_call.outcome = "returned"
          /\ scan_runs[last_call.run_id].status = "failed" <=> last_call.outcome = "raised"

\* a row enters the table as 'running', a 'running' row changes its status only
\* in the step that ends the call, and a finalized row never changes again
RunStatusStep ==
    \A r \in DOMAIN scan_runs' :
        IF r \notin DOMAIN scan_runs
        THEN scan_runs'[r].status = "running"
        ELSE /\ scan_runs[r].status # "running" => scan_runs'[r] = scan_runs[r]
             /\ scan_runs'[r].status # scan_runs[r].status =>
                   /\ scan_runs[r].status = "running"
                   /\ pc # "idle" /\ pc' = "idle"
                   /\ r = run.run_id

\* C1: every run record starts 'running' and is finalized exactly once:
\* 'success' if and only if run_scan returns, 'failed' if and only if an
\* exception escapes; no run is left 'running' after the call ends, and a
\* finalized status never changes
C1_RunFinalizedOnce == [](RunStatusMatchesOutcome) /\ [][RunStatusStep]_vars

\* both ends have happened: one call raised and left a failed run, another
\* returned and left a successful one
C1_Witness ==
    /\ pc = "idle"
    /\ last_call.run_id \in RunIds
    /\ last_call.outcome = "returned"
    /\ scan_runs[last_call.run_id].status = "success"
    /\ \E r \in RunIds \cap DOMAIN scan_runs : scan_runs[r].status = "failed"

-----------------------------------------------------------------------------
(* Evidence *)

SellersOf(conv) ==
    {m \in messages : m.conversation_id = conv /\ is_seller_message(m.speaker_label)}

\* the evidence contract of a hit verdict of rule k in conversation conv: the
\* anchor names a seller message of the conversation with the stated order,
\* the quote, trimmed of surrounding whitespace, is a non-empty substring of
\* its text, and a greeting is anchored among the first seller messages
MeetsEvidenceContract(conv, k, v) ==
    /\ v.evidence_message_id # NullInt
    /\ v.evidence_message_order # NullInt
    /\ \E m \in SellersOf(conv) :
          /\ m.message_id = v.evidence_message_id
          /\ m.message_order = v.evidence_message_order
          /\ strip(v.evidence_quote) # <<>>
          /\ str_in(strip(v.evidence_quote), m.text)
          /\ k = "greeting" =>
                Cardinality({q \in SellersOf(conv) : q.message_order <= m.message_order})
                    <= greeting_window_max

\* an evaluator answer the schema accepted in which a hit fails the contract
RejectedEvidence(c) ==
    /\ c.phase = "evaluator"
    /\ c.validation_ok
    /\ \E k \in rule_keys :
          /\ c.extracted_json.payload[k].hit
          /\ ~MeetsEvidenceContract(c.conversation_id, k, c.extracted_json.payload[k])

C3_StoredEvidenceContract ==
    \A r \in scan_results :
        IF r.eval_hit = 1
        THEN /\ r.evidence_quote # <<>>
             /\ r.evidence_message_id # NullInt
             /\ r.evidence_message_order # NullInt
             /\ \E m \in SellersOf(r.conversation_id) :
                   /\ m.message_id = r.evidence_message_id
                   /\ m.message_order = r.evidence_message_order
                   /\ str_in(r.evidence_quote, m.text)
        ELSE /\ r.evidence_quote = <<>>
             /\ r.evidence_message_id = NullInt
             /\ r.evidence_message_order = NullInt

-----------------------------------------------------------------------------
(* LLM calls of a run *)

\* the positions in the log of the calls of run r in phase ph
RunCalls(r, ph) ==
    {i \in DOMAIN llm_calls : llm_calls[i].run_id = r /\ llm_calls[i].phase = ph}

Calls(r, c, ph) == {i \in RunCalls(r, ph) : llm_calls[i].conversation_id = c}

\* the counters of a run: those of the call in progress, or the stored summary
CountersOf(r) ==
    IF scan_runs[r].status = "running" THEN run.counters
    ELSE scan_runs[r].summary_json.counters

\* the conversations a run selected that have a seller message
SelectedWithSeller(r) ==
    {c \in Range(load_messages_for_range(scan_runs[r].conversation_from,
                                         scan_runs[r].conversation_to)) :
        SellersOf(c) # {}}

\* an evaluator answer that succeeded and whose hits all pass the evidence check
AcceptedEvaluation(c) ==
    /\ c.phase = "evaluator"
    /\ c.error_message = ""
    /\ c.validation_ok
    /\ \A k \in rule_keys :
          c.extracted_json.payload[k].hit =>
              MeetsEvidenceContract(c.conversation_id, k, c.extracted_json.payload[k])

\* C4: within one run every conversation with a seller message that the run
\* reaches gets exactly one bundled evaluator call, with attempt = 1, and at
\* most one bundled judge call, made only after the evaluator call succeeded
\* and its evidence passed; there are no retries; in a successful run the
\* numbers of evaluator calls and of judge calls both equal the number of
\* evaluated conversations, one of each per selected conversation with a seller
C4_OneEvaluatorOneJudgeCall ==
    /\ \A i \in DOMAIN llm_calls :
          /\ llm_calls[i].run_id \in DOMAIN scan_runs
          /\ llm_calls[i].phase \in {"evaluator", "judge"}
          /\ llm_calls[i].attempt = 1
          /\ llm_calls[i].rule_key = "bundle"
          /\ SellersOf(llm_calls[i].conversation_id) # {}
    /\ \A r \in DOMAIN scan_runs :
          /\ \A c \in conversations :
                /\ Cardinality(Calls(r, c, "evaluator")) <= 1
                /\ Cardinality(Calls(r, c, "judge")) <= 1
                /\ \A j \in Calls(r, c, "judge") :
                      \E i \in Calls(r, c, "evaluator") :
                          i < j /\ AcceptedEvaluation(llm_calls[i])
          /\ Cardinality(RunCalls(r, "evaluator")) = CountersOf(r).evaluated_conversations
          /\ scan_runs[r].status = "success" =>
                /\ \A c \in SelectedWithSeller(r) :
                      /\ Cardinality(Calls(r, c, "evaluator")) = 1
                      /\ Cardinality(Calls(r, c, "judge")) = 1
                /\ Cardinality(RunCalls(r, "evaluator")) = Cardinality(SelectedWithSeller(r))
                /\ Cardinality(RunCalls(r, "judge")) = CountersOf(r).evaluated_conversations

\* a successful run over two conversations with seller messages (and one
\* without) has made two evaluator and two judge calls
C4_Witness ==
    \E r \in DOMAIN scan_runs :
        /\ scan_runs[r].status = "success"
        /\ Cardinality(SelectedWithSeller(r)) = 2
        /\ scan_runs[r].summary_json.counters.skipped_conversations_without_seller = 1
        /\ Cardinality(RunCalls(r, "evaluator")) = 2
        /\ Cardinality(RunCalls(r, "judge")) = 2

\* the schema-error flag of a failed call, as llm.py sets it: a parse or
\* validation failure, or a provider exception whose text names the schema
SchemaErrorFlag(c) ==
    \/ c.error_message \in {"json_parse_failed", "validation_failed"}
    \/ c.error_message = "live_call_failed" /\ _looks_like_schema_error(c.extracted_json.text)

\* C5: an LLM call that returns an error ends the run at once: it is the run's
\* last call, no result row exists for its conversation, the run is 'failed',
\* and exactly one of schema_errors / non_schema_errors was incremented by
\* one, chosen by the call's schema-error flag
C5_LlmErrorFailsFast ==
    \A i \in DOMAIN llm_calls :
        llm_calls[i].error_message # "" =>
            LET c == llm_calls[i]
                row == scan_runs[c.run_id]
                counters == row.summary_json.counters
            IN /\ row.status = "failed"
               /\ \A j \in DOMAIN llm_calls : llm_calls[j].run_id = c.run_id => j <= i
               /\ \A r \in scan_results :
                     ~(r.run_id = c.run_id /\ r.conversation_id = c.conversation_id)
               /\ counters.schema_errors = (IF SchemaErrorFlag(c) THEN 1 ELSE 0)
               /\ counters.non_schema_errors = (IF SchemaErrorFlag(c) THEN 0 ELSE 1)
               /\ row.summary_json.error =
                     (IF SchemaErrorFlag(c) THEN "schema_error" ELSE "live_error")
                         \o " phase=" \o c.phase

\* a judge call failed with a live error in the second evaluated conversation:
\* the first conversation's rows stay, the failing one has none
C5_Witness ==
    \E i \in DOMAIN llm_calls :
        LET c == llm_calls[i]
        IN /\ c.phase = "judge"
           /\ c.error_message = "live_call_failed"
           /\ ~SchemaErrorFlag(c)
           /\ scan_runs[c.run_id].status = "failed"
           /\ scan_runs[c.run_id].summary_json.counters.non_schema_errors = 1
           /\ \E r \in scan_results :
                 r.run_id = c.run_id /\ r.conversation_id # c.conversation_id

-----------------------------------------------------------------------------
(* Result rows of a run *)

RowsOf(r) == {x \in scan_results : x.run_id = r}

RowsAt(r, c, k) == {x \in RowsOf(r) : x.conversation_id = c /\ x.rule_key = k}

\* C6: after a successful run there is exactly one result row for every pair
\* of a selected conversation with a seller message and a registry rule, and
\* no other row for the run; no (run, conversation, rule) is ever stored twice
C6_OneRowPerConversationAndRule ==
    /\ \A x \in scan_results :
          /\ x.run_id \in DOMAIN scan_runs
          /\ Cardinality(RowsAt(x.run_id, x.conversation_id, x.rule_key)) = 1
    /\ \A r \in DOMAIN scan_runs :
          scan_runs[r].status = "success" =>
              /\ \A c \in SelectedWithSeller(r), k \in rule_keys :
                    Cardinality(RowsAt(r, c, k)) = 1
              /\ \A x \in RowsOf(r) :
                    x.conversation_id \in SelectedWithSeller(r) /\ x.rule_key \in rule_keys
              /\ Cardinality(RowsOf(r)) = Cardinality(SelectedWithSeller(r)) * Len(all_rules)

\* a successful run over two conversations with sellers and one without holds
\* six rows, and the evaluator reported no hit for some of them
C6_Witness ==
    \E r \in DOMAIN scan_runs :
        /\ scan_runs[r].status = "success"
        /\ Cardinality(SelectedWithSeller(r)) = 2
        /\ Cardinality(RowsOf(r)) = 6
        /\ \E x \in RowsOf(r) : x.eval_hit = 0

\* C7: a run finishes 'success' only with inserted = judged: every result row
\* of a successful run has a judge label, and the judge_coverage of its summary
\* is 1.0, or 0.0 when the run inserted nothing
C7_FullJudgeCoverage ==
    \A r \in DOMAIN scan_runs :
        scan_runs[r].status = "success" =>
            LET summary == scan_runs[r].summary_json
            IN /\ \A x \in RowsOf(r) : x.judge_label \in {0, 1}
               /\ summary.counters.inserted = Cardinality(RowsOf(r))
               /\ summary.counters.judged =
                     Cardinality({x \in RowsOf(r) : x.judge_label # NullInt})
               /\ summary.counters.judged = summary.counters.inserted
               /\ IF summary.counters.inserted > 0
                  THEN IsOne(summary.judge_coverage)
                  ELSE IsZero(summary.judge_coverage)

\* one successful run that inserted rows (coverage 1.0) and one successful
\* run over a conversation without seller messages (coverage 0.0)
C7_Witness ==
    \E r, q \in RunIds \cap DOMAIN scan_runs :
        /\ scan_runs[r].status = "success"
        /\ scan_runs[r].summary_json.counters.inserted > 0
        /\ IsOne(scan_runs[r].summary_json.judge_coverage)
        /\ scan_runs[q].status = "success"
        /\ RowsOf(q) = {}
        /\ IsZero(scan_runs[q].summary_json.judge_coverage)

-----------------------------------------------------------------------------
(* The canonical pointer *)

TagOf(r) == scan_runs[r].summary_json.metrics_version

\* the pinned run exists and carries the current metrics version
CompatiblePinned ==
    /\ app_state # NoRun
    /\ app_state \in DOMAIN scan_runs
    /\ TagOf(app_state) = METRICS_VERSION

\* the step in which the call of run_scan in progress ends
ScanEnds == pc # "idle" /\ pc' = "idle"

\* how one step treats the pointer: the end of a successful scan keeps a
\* compatible pinned run and otherwise pins its own run; no other step of
\* run_scan, and no failed scan, writes the pointer
PointerStep ==
    /\ (ScanEnds /\ scan_runs'[run.run_id].status = "success") =>
          app_state' = (IF CompatiblePinned THEN app_state ELSE run.run_id)
    /\ (ScanEnds /\ scan_runs'[run.run_id].status = "failed") => app_state' = app_state
    /\ (pc # "idle" /\ ~ScanEnds) => app_state' = app_state
    /\ app_state' # app_state =>
          \/ ScanEnds /\ ~CompatiblePinned /\ app_state' = run.run_id
          \/ pc = "idle" /\ scan_runs' = NoRuns /\ app_state' = NoRun

CurrentSuccessfulRuns ==
    {r \in DOMAIN scan_runs :
        scan_runs[r].status = "success" /\ TagOf(r) = METRICS_VERSION}

\* once scans have succeeded under the current version the pointer names the
\* first of them
FirstSuccessPinned ==
    CurrentSuccessfulRuns # {} =>
        /\ app_state \in CurrentSuccessfulRuns
        /\ \A q \in CurrentSuccessfulRuns :
              scan_runs[app_state].started_at_utc <= scan_runs[q].started_at_utc

\* C8: run_scan writes the canonical pointer on first success only: a
\* successful scan leaves it unchanged when the pinned run exists with the
\* current metrics version and otherwise sets it to its own run, a failed scan
\* never changes it, and after successful scans under one version it names
\* the first of them
C8_CanonicalPinnedOnFirstSuccess == [](FirstSuccessPinned) /\ [][PointerStep]_vars

\* a store pinned to a run of the earlier version has seen two successful
\* scans of the current version; the pointer names the first of the two
C8_Witness ==
    \E r, q \in RunIds \cap DOMAIN scan_runs :
        /\ scan_runs[r].status = "success"
        /\ scan_runs[q].status = "success"
        /\ scan_runs[r].started_at_utc < scan_runs[q].started_at_utc
        /\ LegacyFirst \in DOMAIN scan_runs
        /\ app_state = r

-----------------------------------------------------------------------------
(* The baseline of a report *)

\* build_report has returned a report, and nothing was written since
ReportMade == report.run_id # NoRun /\ ~report.raised

\* the pinned run exists
PinnedExists == app_state # NoRun /\ app_state \in DOMAIN scan_runs

\* C9: build_report never compares runs of different metrics versions: the
\* baseline whose judge_correctness fills the canonical column carries the
\* same metrics-version tag as the reported run, and when the pinned run's
\* tag differs from the reported run's the report carries a note and its
\* baseline is not the pinned run
C9_ReportComparesWithinOneVersion ==
    ReportMade =>
        /\ report.canonical_run_id \in DOMAIN scan_runs
        /\ TagOf(report.canonical_run_id) = TagOf(report.run_id)
        /\ \A m \in scan_metrics :
              /\ m.run_id = report.canonical_run_id =>
                    FracEq(report.delta[m.rule_key].canonical, m.judge_correctness)
              /\ m.run_id = report.run_id =>
                    FracEq(report.delta[m.rule_key].current, m.judge_correctness)
        /\ (PinnedExists /\ TagOf(app_state) # TagOf(report.run_id)) =>
              /\ report.note # ""
              /\ report.canonical_run_id # app_state

\* a failed run of the current version is reported while the store is pinned
\* to a run of the earlier version: the baseline is the run itself, with a note
C9_Witness ==
    /\ ReportMade
    /\ report.run_id \in RunIds
    /\ PinnedExists
    /\ TagOf(app_state) = LegacyVersion
    /\ TagOf(report.run_id) = METRICS_VERSION
    /\ report.note # ""
    /\ report.canonical_run_id = report.run_id

\* C10: for a report of run r with metrics version v, a pinned run that exists
\* with tag v is the canonical run and there is no note; otherwise the
\* successful run with tag v that started earliest is; and if there is none,
\* r itself is, with the fallback note
C10_CanonicalSelection ==
    ReportMade =>
        LET v == report.metrics_version
            candidates == {q \in DOMAIN scan_runs :
                             scan_runs[q].status = "success" /\ TagOf(q) = v}
        IN /\ v = TagOf(report.run_id)
           /\ IF PinnedExists /\ TagOf(app_state) = v
              THEN report.canonical_run_id = app_state /\ report.note = ""
              ELSE IF candidates # {}
              THEN /\ report.canonical_run_id \in candidates
                   /\ \A q \in candidates :
                         scan_runs[report.canonical_run_id].started_at_utc
                             <= scan_runs[q].started_at_utc
                   /\ report.note = NoteSwitched
              ELSE report.canonical_run_id = report.run_id /\ report.note = NoteFallback

\* the later run of the earlier version is reported after the pointer moved
\* to a run of the current version: of the two candidates the earlier one is
\* the baseline
C10_Witness ==
    /\ ReportMade
    /\ report.run_id = LegacySecond
    /\ PinnedExists
    /\ TagOf(app_state) = METRICS_VERSION
    /\ report.canonical_run_id = LegacyFirst
    /\ report.note = NoteSwitched

-----------------------------------------------------------------------------
(* The LLM call log *)

\* run_scan is about to make an LLM call
AtLlmCall ==
    \/ pc = "judge"
    \/ AtConversation /\ seller_catalog # <<>>

\* a step keeps every record of the log, and adds exactly one record when it
\* is an LLM call and none otherwise
LogGrowsByCalls ==
    /\ Len(llm_calls') >= Len(llm_calls)
    /\ SubSeq(llm_calls', 1, Len(llm_calls)) = llm_calls
    /\ Len(llm_calls') = Len(llm_calls) + (IF AtLlmCall THEN 1 ELSE 0)

\* a reset of the store: reset_run_data, or replace_all_data of an ingest
StoreReset ==
    /\ pc = "idle"
    /\ scan_runs' = NoRuns
    /\ scan_results' = {}
    /\ llm_calls' = <<>>

\* C11 as stated: the log is append-only: every LLM call adds exactly one
\* record whatever its outcome, and no operation ever deletes a record
C11_LogNeverDeleted == [][LogGrowsByCalls]_vars

\* C11, amended: every LLM call adds exactly one record whatever its outcome,
\* and only a reset of the store (reset_run_data, replace_all_data), which
\* empties the log together with the runs, deletes records; run_scan and
\* build_report never do, so the calls of a failed run stay in the log
C11_LogAppendOnlyButReset == [][LogGrowsByCalls \/ StoreReset]_vars

\* a failed run whose three calls, the failing one included, are in the log
C11_Witness ==
    \E r \in DOMAIN scan_runs :
        /\ scan_runs[r].status = "failed"
        /\ Cardinality(RunCalls(r, "evaluator")) = 2
        /\ Cardinality(RunCalls(r, "judge")) = 1
        /\ \E i \in RunCalls(r, "evaluator") : llm_calls[i].error_message # ""

-----------------------------------------------------------------------------
(* Functions studied on their own: each action applies one function of the *)
(* code to an input drawn from a bounded set and records input and result  *)

ConversationsWithSeller ==
    {c \in conversations : seller_message_refs(conversation_messages(c)) # <<>>}

\* greeting_window_ids of run_scan for conversation c
WindowIdsOf(c) ==
    {a.message_id : a \in Range(greeting_window_refs(conversation_messages(c),
                                                     greeting_window_max))}

\* the evidence check of run_scan on one rule's verdict in one conversation
ApplyEvidenceCheck ==
    /\ probe = NoProbe
    /\ \E c \in ConversationsWithSeller, k \in rule_keys :
          \E v \in EvidenceVerdicts(c) :
              probe' = [fn |-> "evidence_error", conversation_id |-> c, rule_key |-> k,
                        verdict |-> v,
                        error |-> evidence_error(k, v,
                                     seller_message_refs(conversation_messages(c)),
                                     WindowIdsOf(c))]
    /\ UNCHANGED <<store, message_scan>>

\* rule key lists handed to the factory: two registry keys, a key no registry
\* knows, a key with leading whitespace and a blank key (one-letter names)
KeyNames == {<<"g">>, <<"u">>, <<"n">>, <<" ", "g">>, <<" ">>}

KeyLists == UNION {[1..n -> KeyNames] : n \in 0..MaxKeys}

ValidVerdict(kind) ==
    IF kind = "evaluator" THEN NoHit ELSE JudgeVerdict(TRUE, TRUE)

\* a hit without quote or anchor
InvalidVerdict == Verdict(TRUE, <<>>, NullInt, NullInt)

\* tests/test_judge_rule_factory.py: the contract built for a key list, its
\* schema, and model_validate on a payload
ApplyBundleContract ==
    /\ probe = NoProbe
    /\ \E kind \in {"evaluator", "judge"}, key_list \in KeyLists :
          \E D \in SUBSET KeyNames :
              \E bad \in SUBSET D :
                  LET model == build_bundle_model(kind, key_list)
                      payload == [k \in D |-> IF k \in bad THEN InvalidVerdict
                                               ELSE ValidVerdict(kind)]
                  IN /\ Cardinality(bad) <= (IF kind = "evaluator" THEN 1 ELSE 0)
                     /\ probe' = [fn |-> "build_bundle_model", kind |-> kind,
                                  rule_keys |-> key_list, payload |-> payload,
                                  raised |-> model.raised,
                                  properties |-> model.properties,
                                  required |-> model.required,
                                  additionalProperties |-> model.additionalProperties,
                                  accepted |-> /\ ~model.raised
                                               /\ bundle_model_validate(kind, model.properties, payload)]
    /\ UNCHANGED <<store, message_scan>>

\* tests/test_json_schema_regression.py: reason codes offered to the parser
OfferedReasonCodes ==
    ReasonCode \cup UNION {RULE_REASON_CODES[k] : k \in DOMAIN RULE_REASON_CODES}
               \cup {"invalid_code"}

ApplyReasonCode ==
    /\ probe = NoProbe
    /\ \E k \in DOMAIN RULE_REASON_CODES, code \in OfferedReasonCodes :
          \E v \in {NoHit, Verdict(TRUE, <<"a">>, 1, 1), InvalidVerdict} :
              probe' = [fn |-> "reason_code", rule_key |-> k, reason_code |-> code,
                        verdict |-> v,
                        accepted |-> RuleEvaluation_with_code_valid(code, v)]
    /\ UNCHANGED <<store, message_scan>>

\* contents of scan_results for _compute_metrics: up to MaxRows greeting rows
\* of the run with every evaluator decision and every judge label (absent,
\* 0, 1), optionally beside rows of another rule and of another run
MetricsRun == "r1"

LabelledRow(result_id, run_id, rule_key, eval_hit, judge_label) ==
    [ResultRow_NoJudgeLabel(result_id, run_id, result_id, rule_key,
                            IF eval_hit = 1 THEN Verdict(TRUE, <<"a">>, 1, 1) ELSE NoHit,
                            JudgeVerdict(TRUE, TRUE))
        EXCEPT !.judge_label = judge_label,
               !.judge_expected_hit = IF judge_label = NullInt THEN NullInt ELSE eval_hit]

RowChoices == {<<"absent", 0, NullInt>>} \cup ({"row"} \X {0, 1} \X {NullInt, 0, 1})

ApplyComputeMetrics ==
    /\ probe = NoProbe
    /\ \E pick \in [1..MaxRows -> RowChoices], noise \in BOOLEAN :
          LET own == {LabelledRow(i, MetricsRun, "greeting", pick[i][2], pick[i][3]) :
                         i \in {j \in 1..MaxRows : pick[j][1] = "row"}}
              other == IF noise
                       THEN {LabelledRow(MaxRows + 1, MetricsRun, "upsell", 1, 0),
                             LabelledRow(MaxRows + 2, "r2", "greeting", 1, 1)}
                       ELSE {}
              results == own \cup other
              \* the rows an earlier computation left for the run, when it had
              \* one judged row per rule, and the rows of another run
              before == IF noise
                        THEN {MetricRow(MetricsRun, k, {LabelledRow(0, MetricsRun, k, 1, 1)}) :
                                 k \in rule_keys}
                             \cup {MetricRow("r2", k, {LabelledRow(0, "r2", k, 1, 0)}) :
                                      k \in rule_keys}
                        ELSE {}
              after == _compute_metrics(before, MetricsRun, results)
          IN probe' = [fn |-> "_compute_metrics", run_id |-> MetricsRun,
                       results |-> results,
                       metrics |-> _compute_metrics({}, MetricsRun, results),
                       before |-> before,
                       after |-> after,
                       again |-> _compute_metrics(after, MetricsRun, results)]
    /\ UNCHANGED <<store, message_scan>>

\* cell scores: none, or a ratio in [0, 1] in hundredths
Scores == {NullInt} \cup 0..100

ZoneClassifiers == {"sgr_core.heatmap_zone", "reporting._heatmap_zone", "pipeline._heatmap_zone"}

ApplyHeatmapZone ==
    /\ probe = NoProbe
    /\ \E classifier \in ZoneClassifiers, score \in Scores :
          probe' = [fn |-> "heatmap_zone", classifier |-> classifier, score |-> score,
                    zone |-> IF classifier = "sgr_core.heatmap_zone"
                             THEN heatmap_zone(score, QUALITY_THRESHOLDS)
                             ELSE IF classifier = "reporting._heatmap_zone"
                             THEN reporting_heatmap_zone(score)
                             ELSE pipeline_heatmap_zone(score)]
    /\ UNCHANGED <<store, message_scan>>

\* reporting._build_accuracy_heatmap_data and _worst_heatmap_cells

\* str < str for the rule keys: their rank in code-point order
StrRank(key) ==
    IF key = "empathy" THEN 1 ELSE IF key = "greeting" THEN 2 ELSE 3

FracLess(x, y) == x[1] * y[2] < y[1] * x[2]

\* rows is the table in the order it is stored; the cells are grouped by
\* (conversation_id, rule_key), a cell without a row counting (0, 0); a cell
\* without judged rows has the score None, here <<>>
_build_accuracy_heatmap_data(rows, run_id, key_list) ==
    LET mine == {i \in DOMAIN rows : rows[i].run_id = run_id}
        conversation_ids == SortedInts({rows[i].conversation_id : i \in mine})
        cell(c, k) == {i \in mine : rows[i].conversation_id = c /\ rows[i].rule_key = k}
        judged(c, k) == Cardinality({i \in cell(c, k) : rows[i].judge_label # NullInt})
        correct(c, k) == Cardinality({i \in cell(c, k) : rows[i].judge_label = 1})
    IN [conversation_ids |-> conversation_ids,
        rule_keys |-> key_list,
        scores |-> [i \in DOMAIN conversation_ids |-> [j \in DOMAIN key_list |->
                       IF judged(conversation_ids[i], key_list[j]) # 0
                       THEN _safe_div(correct(conversation_ids[i], key_list[j]),
                                      judged(conversation_ids[i], key_list[j]))
                       ELSE <<>>]],
        judged_totals |-> [i \in DOMAIN conversation_ids |-> [j \in DOMAIN key_list |->
                              judged(conversation_ids[i], key_list[j])]]]

\* the sort key without the judged count
ranked_key_less_score_only(a, b) ==
    \/ FracLess(a.score, b.score)
    \/ /\ FracEq(a.score, b.score)
       /\ \/ a.conversation_id < b.conversation_id
          \/ /\ a.conversation_id = b.conversation_id
             /\ StrRank(a.rule_key) < StrRank(b.rule_key)

\* line 108: (score, -judged, conversation_id, rule_key) compared as tuples;
\* the conversation ids of the store are single digits, whose order as
\* strings is their order as numbers
ranked_key_less(a, b) ==
    \/ FracLess(a.score, b.score)
    \/ /\ FracEq(a.score, b.score)
       /\ \/ (0 - a.judged_total) < (0 - b.judged_total)
          \/ /\ a.judged_total = b.judged_total
             /\ \/ a.conversation_id < b.conversation_id
                \/ /\ a.conversation_id = b.conversation_id
                   /\ StrRank(a.rule_key) < StrRank(b.rule_key)

\* list.sort is stable: an item goes behind the items whose key is not greater
RECURSIVE sort_ranked(_)
sort_ranked(ranked) ==
    IF ranked = <<>> THEN <<>>
    ELSE LET sorted == sort_ranked(SubSeq(ranked, 1, Len(ranked) - 1))
             item == ranked[Len(ranked)]
             keep == {i \in DOMAIN sorted : ~ranked_key_less(item, sorted[i])}
             at == Cardinality(keep)
         IN SubSeq(sorted, 1, at) \o <<item>> \o SubSeq(sorted, at + 1, Len(sorted))

RECURSIVE ranked_cells(_, _, _, _, _)
ranked_cells(conversation_ids, key_list, scores, judged_totals, n) ==
    IF n = 0 THEN <<>>
    ELSE LET row_idx == ((n - 1) \div Len(key_list)) + 1
             col_idx == ((n - 1) % Len(key_list)) + 1
             judged == judged_totals[row_idx][col_idx]
             score == scores[row_idx][col_idx]
             before == ranked_cells(conversation_ids, key_list, scores, judged_totals, n - 1)
         IN IF judged <= 0 \/ score = <<>>
            THEN before
            ELSE Append(before, [conversation_id |-> conversation_ids[row_idx],
                                 rule_key |-> key_list[col_idx],
                                 score |-> score, judged_total |-> judged])

_worst_heatmap_cells(conversation_ids, key_list, scores, judged_totals, limit) ==
    LET ranked == sort_ranked(ranked_cells(conversation_ids, key_list, scores, judged_totals,
                                           Len(conversation_ids) * Len(key_list)))
        upto == IF limit > 0 THEN limit ELSE 0
    IN SubSeq(ranked, 1, IF upto < Len(ranked) THEN upto ELSE Len(ranked))

\* contents of scan_results for the heat map: up to MaxRows rows of the run in
\* any stored order, over two conversations and two rules, judged or not
ApplyWorstHeatmapCells ==
    /\ probe = NoProbe
    /\ \E n \in 0..MaxRows, limit \in {1, 10} :
       \E rows \in [1..n -> {[LabelledRow(0, MetricsRun, k, 1, label)
                                  EXCEPT !.conversation_id = c] :
                                 c \in {1, 2}, k \in {"greeting", "empathy"},
                                 label \in {NullInt, 0, 1}}] :
          LET worst_of(table) ==
                  LET heatmap == _build_accuracy_heatmap_data(table, MetricsRun, RULES)
                  IN _worst_heatmap_cells(heatmap.conversation_ids, heatmap.rule_keys,
                                          heatmap.scores, heatmap.judged_totals, limit)
          IN probe' = [fn |-> "_worst_heatmap_cells", run_id |-> MetricsRun,
                       rows |-> rows, limit |-> limit,
                       heatmap |-> _build_accuracy_heatmap_data(rows, MetricsRun, RULES),
                       worst |-> worst_of(rows),
                       worst_reordered |->
                           worst_of([i \in DOMAIN rows |-> rows[Len(rows) + 1 - i]])]
    /\ UNCHANGED <<store, message_scan>>

\* reporting._bad_cases

\* ABS(eval_confidence - COALESCE(judge_confidence, 0)), confidences in tenths
divergence(r) ==
    LET judge == IF r.judge_confidence = NullInt THEN 0 ELSE r.judge_confidence
    IN IF r.eval_confidence < judge THEN judge - r.eval_confidence
       ELSE r.eval_confidence - judge

\* COALESCE(evidence_message_order, 0)
evidence_order(r) ==
    IF r.evidence_message_order = NullInt THEN 0 ELSE r.evidence_message_order

\* the ORDER BY without its last term
bad_case_key_less_no_conversation(a, b) ==
    \/ divergence(a) > divergence(b)
    \/ /\ divergence(a) = divergence(b)
       /\ \/ StrRank(a.rule_key) < StrRank(b.rule_key)
          \/ /\ a.rule_key = b.rule_key
             /\ evidence_order(a) < evidence_order(b)

\* ORDER BY ABS(eval_confidence - COALESCE(judge_confidence, 0)) DESC,
\* rule_key, COALESCE(evidence_message_order, 0), conversation_id
bad_case_key_less(a, b) ==
    \/ divergence(a) > divergence(b)
    \/ /\ divergence(a) = divergence(b)
       /\ \/ StrRank(a.rule_key) < StrRank(b.rule_key)
          \/ /\ a.rule_key = b.rule_key
             /\ \/ evidence_order(a) < evidence_order(b)
                \/ /\ evidence_order(a) = evidence_order(b)
                   /\ a.conversation_id < b.conversation_id

\* every list the query may return: the selected rows in an order that agrees
\* with ORDER BY, rows the terms do not tell apart coming in either order,
\* cut at LIMIT
_bad_cases(results, run_id, limit) ==
    LET selected == {r \in results : r.run_id = run_id /\ r.judge_label = 0}
        n == Cardinality(selected)
        orders == {s \in [1..n -> selected] :
                      /\ \A i, j \in 1..n : i # j => s[i] # s[j]
                      /\ \A i, j \in 1..n : i < j => ~bad_case_key_less(s[j], s[i])}
    IN {SubSeq(s, 1, IF limit < n THEN limit ELSE n) : s \in orders}

\* the rows run_scan leaves for a run: at most one for a conversation and a
\* rule, with the confidences of evaluator and judge and the evidence order
ApplyBadCases ==
    /\ probe = NoProbe
    /\ \E pick \in [{1, 2} \X {"greeting", "empathy"} ->
                        {<<NullInt, <<0, 0>>, NullInt>>}
                            \cup ({0, 1} \X {<<9, 9>>, <<9, 5>>} \X {NullInt, 2})],
          noise \in BOOLEAN, limit \in {1, 20} :
          LET row(run_id, c, k, p) ==
                  [run_id |-> run_id, conversation_id |-> c, rule_key |-> k,
                   judge_label |-> p[1], eval_confidence |-> p[2][1],
                   judge_confidence |-> p[2][2], evidence_message_order |-> p[3]]
              own == {row(MetricsRun, ck[1], ck[2], pick[ck]) :
                         ck \in {x \in DOMAIN pick : pick[x][1] # NullInt}}
              other == IF noise
                       THEN {row("r2", 1, "upsell", <<0, <<9, 5>>, 2>>)}
                       ELSE {}
              results == own \cup other
          IN \E first \in _bad_cases(results, MetricsRun, limit),
                second \in _bad_cases(results, MetricsRun, limit) :
                probe' = [fn |-> "_bad_cases", run_id |-> MetricsRun,
                          results |-> results, limit |-> limit,
                          bad_cases |-> first, again |-> second]
    /\ UNCHANGED <<store, message_scan>>

\* the schemas handed over: the bundle's (an object of one object per rule),
\* one whose inner object leaves a property out of required, one whose inner
\* object has no required list and one that allows additional properties at
\* the top; the provider raises with or without a schema complaint, returns
\* text that is no JSON, the JSON text null (json.loads gives None), a
\* payload the model accepts, or one that lacks a rule
ApplyCallJsonSchema ==
    /\ probe = NoProbe
    /\ \E inner \in {{"hit", "confidence"}, {"hit"}, {"<none>"}},
          additional \in {"false", "absent"}, is_live \in BOOLEAN,
          response \in {ProviderRaises("service_unavailable"),
                        ProviderRaises("invalid_json_schema"),
                        ProviderGarbage,
                        [kind |-> "json_null", text |-> "", payload |-> NoPayload],
                        ProviderReturns(AllRules(NoHit)),
                        ProviderReturns([k \in rule_keys \ {"empathy"} |-> NoHit])} :
          LET leaf(type) == [type |-> type, names |-> {}, required |-> {"<none>"},
                             additional |-> "absent", children |-> <<>>]
              rule_schema == [type |-> "object", names |-> {"hit", "confidence"},
                              required |-> inner, additional |-> "false",
                              children |-> <<leaf("boolean"), leaf("number")>>]
              schema == [type |-> "object", names |-> rule_keys,
                         required |-> rule_keys, additional |-> additional,
                         children |-> [i \in 1..Len(RULES) |-> rule_schema]]
              call == LLMClient_call_json_schema(schema, is_live, "evaluator",
                                                 rule_keys, response)
          IN probe' = [fn |-> "call_json_schema", schema |-> schema,
                       is_live |-> is_live, response |-> response,
                       result |-> call.result,
                       provider_called |-> call.provider_called]
    /\ UNCHANGED <<store, message_scan>>

\* seller texts: a greeting, a capitalised greeting followed by a word, a
\* greeting behind another word and leading whitespace, an empathy phrase
\* and a text no matcher accepts
SellerTexts ==
    {<<"h", "e", "l", "l", "o">>, <<"H", "e", "l", "l", "o", " ", "a">>, <<" ", "a", " ", "h", "e", "l", "l", "o">>,
     <<"i", " ", "u", "n", "d", "e", "r", "s", "t", "a", "n", "d">>, <<"h", "e", "l", "l">>}

\* docs_refresh.py: the seller rows of a conversation by ascending order
SellerRows(texts) ==
    [i \in DOMAIN texts |-> [message_id |-> 10 + i, message_order |-> 2 * i,
                              text |-> texts[i]]]

ApplyRuleEvalForDialog ==
    /\ probe = NoProbe
    /\ \E n \in 0..MaxSellerRows :
          \E texts \in [1..n -> SellerTexts], k \in {"greeting", "empathy", "upsell"} :
              probe' = [fn |-> "rule_eval_for_dialog", rule_key |-> k,
                        seller_rows |-> SellerRows(texts),
                        result |-> rule_eval_for_dialog(k, SellerRows(texts))]
    /\ UNCHANGED <<store, message_scan>>

NextFunctions ==
    \/ ApplyBundleContract
    \/ ApplyReasonCode
    \/ ApplyComputeMetrics
    \/ ApplyHeatmapZone
    \/ ApplyRuleEvalForDialog
    \/ ApplyEvidenceCheck
    \/ ApplyWorstHeatmapCells
    \/ ApplyBadCases
    \/ ApplyCallJsonSchema

SpecFunctions == InitStore({1, 2, 3}, FALSE) /\ [][NextFunctions]_vars

-----------------------------------------------------------------------------
(* The evidence check as a function *)

EvidenceProbe == probe.fn = "evidence_error" /\ probe.verdict.hit

\* the anchor of the probed verdict names a seller message of the conversation
\* with the claimed order
ProbeAnchors ==
    {m \in SellersOf(probe.conversation_id) :
        /\ m.message_id = probe.verdict.evidence_message_id
        /\ m.message_order = probe.verdict.evidence_message_order}

\* C12: for a hit verdict on a non-greeting rule the evidence check reports
\* no error if and only if the anchor id is a seller message of this
\* conversation whose order equals the claimed order and the quote is a
\* non-empty exact substring of that message's text
C12_EvidenceCheckIffExactSubstring ==
    (EvidenceProbe /\ probe.rule_key # "greeting") =>
        (probe.error = "" <=>
            /\ probe.verdict.evidence_quote # <<>>
            /\ \E m \in ProbeAnchors : str_in(probe.verdict.evidence_quote, m.text))

\* the k of a seller message: its rank among the seller messages of its
\* conversation by ascending order, customer messages not counted
SellerRank(m) ==
    Cardinality({q \in SellersOf(m.conversation_id) : q.message_order <= m.message_order})

\* C13: a greeting hit whose evidence is otherwise in order is rejected when
\* its anchor is the k-th seller message with k above the window, and passes
\* the window check when k is within it; customer messages never count
C13_GreetingWindow ==
    (EvidenceProbe /\ probe.rule_key = "greeting") =>
        \A m \in ProbeAnchors :
            (/\ strip(probe.verdict.evidence_quote) # <<>>
             /\ str_in(strip(probe.verdict.evidence_quote), m.text)) =>
                IF SellerRank(m) > greeting_window_max
                THEN probe.error = "greeting evidence is outside first seller window"
                ELSE probe.error = ""

\* the third seller message stands at order 4, behind a customer message, and
\* a greeting anchored on it is accepted
C13_Witness ==
    /\ EvidenceProbe
    /\ probe.rule_key = "greeting"
    /\ probe.error = ""
    /\ \E m \in ProbeAnchors :
          SellerRank(m) = greeting_window_max /\ m.message_order > greeting_window_max

-----------------------------------------------------------------------------
(* C14: dynamic bundle contracts *)

BundleProbe == probe.fn = "build_bundle_model"

DuplicateFree(seq) == \A i, j \in DOMAIN seq : seq[i] = seq[j] => i = j

\* what a contract for the key set R promises
ContractFor(R) ==
    /\ ~probe.raised
    /\ probe.properties = R
    /\ probe.required = R
    /\ ~probe.additionalProperties
    /\ (/\ DOMAIN probe.payload = R
        /\ \A k \in R : probe.payload[k] = ValidVerdict(probe.kind)) => probe.accepted
    /\ R \ DOMAIN probe.payload # {} => ~probe.accepted
    /\ DOMAIN probe.payload \ R # {} => ~probe.accepted

-----------------------------------------------------------------------------
(* C15: reason codes per rule *)

\* C15: an evaluator verdict for a rule is accepted only if its reason_code
\* is one of that rule's own codes
C15_ReasonCodeOfOwnRule ==
    (probe.fn = "reason_code" /\ probe.accepted) =>
        probe.reason_code \in RULE_REASON_CODES[probe.rule_key]

-----------------------------------------------------------------------------
(* C16: the metrics of a run *)

\* x is the ratio num/den, and 0 when den is zero
RatioOrZero(x, num, den) ==
    /\ x[2] # 0
    /\ IF den = 0 THEN x[1] = 0 ELSE FracEq(x, <<num, den>>)

InUnitInterval(x) == x[2] > 0 /\ 0 <= x[1] /\ x[1] <= x[2]

-----------------------------------------------------------------------------
(* C17: conversations without a seller message *)

SelectedOf(r) ==
    Range(load_messages_for_range(scan_runs[r].conversation_from,
                                  scan_runs[r].conversation_to))

\* the step taken at a selected conversation that has no seller message
SkipStep ==
    (AtConversation /\ seller_catalog = <<>>) =>
        /\ llm_calls' = llm_calls
        /\ scan_results' = scan_results
        /\ scan_runs' = scan_runs
        /\ run'.counters = [run.counters EXCEPT
                               !.skipped_conversations_without_seller = @ + 1]
        /\ run'.pos = run.pos + 1
        /\ pc' = "conversation"

\* no call and no row of a run names a conversation without a seller message,
\* and a finished successful run counted each selected conversation once, as
\* skipped or as evaluated
SkippedLeaveNoTrace ==
    \A r \in RunIds \cap DOMAIN scan_runs :
        /\ \A c \in SelectedOf(r) \ SelectedWithSeller(r) :
              /\ Calls(r, c, "evaluator") = {} /\ Calls(r, c, "judge") = {}
              /\ \A k \in rule_keys : RowsAt(r, c, k) = {}
        /\ scan_runs[r].status = "success" =>
              LET n == scan_runs[r].summary_json.counters
              IN /\ n.skipped_conversations_without_seller =
                       Cardinality(SelectedOf(r) \ SelectedWithSeller(r))
                 /\ n.evaluated_conversations = Cardinality(SelectedWithSeller(r))
                 /\ n.processed = Len(all_rules) * Cardinality(SelectedWithSeller(r))

\* C17: a selected conversation with no seller message is skipped: no LLM
\* call, no result row, the skipped counter grows by one, the evaluated and
\* processed counters do not, and the run goes on to its next conversation
C17_ConversationWithoutSellerSkipped ==
    [](SkippedLeaveNoTrace) /\ [][SkipStep]_vars

\* a run over all three conversations, one of them skipped, ends in success
C17_Witness ==
    \E r \in RunIds \cap DOMAIN scan_runs :
        /\ scan_runs[r].status = "success"
        /\ Cardinality(SelectedOf(r)) = 3
        /\ scan_runs[r].summary_json.counters.skipped_conversations_without_seller = 1
        /\ scan_runs[r].summary_json.counters.evaluated_conversations = 2
        /\ scan_runs[r].summary_json.counters.inserted = 2 * Len(all_rules)

-----------------------------------------------------------------------------
(* C18: zones of the heatmap *)

\* C18: every zone classifier maps no score to na, a score of at least
\* green_min to green, a score from yellow_min up to green_min to yellow and
\* a score below yellow_min to red
C18_ZoneByConfiguredThresholds ==
    probe.fn = "heatmap_zone" =>
        probe.zone =
            IF probe.score = NullInt THEN "na"
            ELSE IF probe.score >= QUALITY_THRESHOLDS.green_min THEN "green"
            ELSE IF probe.score >= QUALITY_THRESHOLDS.yellow_min THEN "yellow"
            ELSE "red"

-----------------------------------------------------------------------------
(* C19: the greeting rule of the deterministic evaluator *)

GreetingProbe == probe.fn = "rule_eval_for_dialog" /\ probe.rule_key = "greeting"

\* the positions of the seller rows that carry a greeting
GreetingRows == {i \in DOMAIN probe.seller_rows : _is_greeting(probe.seller_rows[i].text)}

NonHit(result, reason_code) ==
    /\ ~result.hit
    /\ result.reason_code = reason_code
    /\ result.evidence_quote = <<>>
    /\ result.evidence_message_id = NullInt
    /\ result.evidence_message_order = NullInt

\* C19: the greeting rule is a hit exactly when one of the first three seller
\* messages greets, anchored on the first of them; greetings only in later
\* seller messages give a non-hit greeting_late with empty quote and null
\* anchors, no greeting gives a non-hit greeting_missing
C19_DeterministicGreetingWindow ==
    GreetingProbe =>
        LET rows == probe.seller_rows
            early == {i \in GreetingRows : i <= 3}
        IN /\ IF early # {}
              THEN LET first == CHOOSE i \in early : \A j \in early : i <= j
                   IN /\ probe.result.hit
                      /\ probe.result.reason_code = "greeting_present"
                      /\ probe.result.evidence_message_id = rows[first].message_id
                      /\ probe.result.evidence_message_order = rows[first].message_order
                      /\ probe.result.evidence_quote # <<>>
                      /\ str_in(probe.result.evidence_quote, rows[first].text)
              ELSE IF GreetingRows # {}
              THEN NonHit(probe.result, "greeting_late")
              ELSE NonHit(probe.result, "greeting_missing")
           /\ probe.result.hit =>
                 \E i \in DOMAIN rows :
                     /\ i <= 3
                     /\ rows[i].message_id = probe.result.evidence_message_id

\* four seller messages of which only the fourth greets: greeting_late
C19_Witness ==
    /\ GreetingProbe
    /\ Len(probe.seller_rows) = 4
    /\ GreetingRows = {4}
    /\ NonHit(probe.result, "greeting_late")

-----------------------------------------------------------------------------
(* C20: errors of the per-message scan *)

LastStepCall == message_scan.step_calls[Len(message_scan.step_calls)]

\* the step that made the calls now in step_calls, seen from its source state
CaseStep == message_scan'.step_calls # <<>> /\ message_scan' # message_scan

NewLastCall == message_scan'.step_calls[Len(message_scan'.step_calls)]

\* a call that returns a schema error ends the run as failed at once
SchemaErrorStep ==
    (CaseStep /\ NewLastCall.outcome = "schema_error") =>
        /\ message_scan'.pc = "idle"
        /\ message_scan'.runs[message_scan.run_id].status = "failed"
        /\ message_scan'.results = message_scan.results
        /\ message_scan'.counters.schema_errors = message_scan.counters.schema_errors + 1

\* a call that returns another error skips the case: no row, no label, both
\* counters grow by one and the loop stands at its next case
NonSchemaErrorStep ==
    (CaseStep /\ NewLastCall.outcome = "non_schema_error") =>
        /\ message_scan'.pc = message_scan.pc
        /\ message_scan'.pos = message_scan.pos + 1
        /\ message_scan'.runs = message_scan.runs
        /\ message_scan'.results = message_scan.results
        /\ message_scan'.counters.skipped_due_to_errors =
              message_scan.counters.skipped_due_to_errors + 1
        /\ message_scan'.counters.non_schema_errors =
              message_scan.counters.non_schema_errors + 1
        /\ message_scan'.counters.schema_errors = message_scan.counters.schema_errors

\* a finished run failed exactly when it met a schema error
MessageRunOutcome ==
    \A r \in DOMAIN message_scan.runs :
        LET row == message_scan.runs[r]
        IN /\ row.status = "success" => row.summary.counters.schema_errors = 0
           /\ row.status = "failed" => row.summary.counters.schema_errors = 1

\* C20: in the per-message scan a schema error raises at once and the run
\* ends failed; any other error skips that (seller message, rule) case (no
\* row in the evaluator phase, no label in the judge phase), increments
\* skipped_due_to_errors and non_schema_errors and lets the run go on
C20_SchemaErrorFailsOtherErrorSkips ==
    [](MessageRunOutcome) /\ [][SchemaErrorStep /\ NonSchemaErrorStep]_vars

\* a run that met a non-schema error in each phase and still ended in success
\* with a judged row
C20_Witness ==
    \E r \in DOMAIN message_scan.runs :
        LET n == message_scan.runs[r].summary.counters
        IN /\ message_scan.runs[r].status = "success"
           /\ n.non_schema_errors = 2
           /\ n.skipped_due_to_errors = 2
           /\ n.evidence_mismatch_skipped = 0
           /\ n.inserted = 2
           /\ n.judged = 1

-----------------------------------------------------------------------------
(* C21: the evidence retry of the per-message scan *)

\* a step of the evaluator loop, seen from its source state
EvaluatorCaseStep == message_scan.pc = "evaluator" /\ CaseStep

PersistedVerdict(outcome) == outcome \in {"hit", "no_hit"}

\* the calls of one case: one, or two when the first verdict failed the
\* evidence check; the case counts once in processed whatever the calls
RetryStep ==
    EvaluatorCaseStep =>
        LET calls == message_scan'.step_calls
            case == message_scan.cases[message_scan.pos]
            last == calls[Len(calls)]
        IN /\ Len(calls) \in {1, 2}
           /\ \A i \in DOMAIN calls :
                 /\ calls[i].attempt = i
                 /\ calls[i].phase = "evaluator"
                 /\ calls[i].message_id = case.message_id
                 /\ calls[i].rule_key = case.rule_key
           /\ Len(calls) = 2 <=> calls[1].outcome = "evidence_mismatch"
           /\ message_scan'.counters.processed = message_scan.counters.processed + 1
           /\ PersistedVerdict(last.outcome) =>
                 /\ message_scan'.results =
                       Append(message_scan.results,
                              MessageResultRow(Len(message_scan.results) + 1,
                                               message_scan.run_id, case,
                                               IF last.outcome = "hit" THEN 1 ELSE 0))
                 /\ message_scan'.counters.inserted = message_scan.counters.inserted + 1
           /\ (Len(calls) = 2 /\ last.outcome = "evidence_mismatch") =>
                 /\ message_scan'.results = message_scan.results
                 /\ message_scan'.counters.evidence_mismatch_skipped =
                       message_scan.counters.evidence_mismatch_skipped + 1
                 /\ message_scan'.counters.skipped_due_to_errors =
                       message_scan.counters.skipped_due_to_errors + 1
                 /\ message_scan'.counters.schema_errors =
                       message_scan.counters.schema_errors
                 /\ message_scan'.runs = message_scan.runs
                 /\ message_scan'.pc = "evaluator"
                 /\ message_scan'.pos = message_scan.pos + 1

\* a case the run dropped after two evidence failures is counted as skipped,
\* never as a schema error of a failed run
DroppedCasesCounted ==
    \A r \in DOMAIN message_scan.runs :
        LET n == message_scan.runs[r].summary.counters
        IN /\ n.evidence_mismatch_skipped <= n.skipped_due_to_errors
           /\ n.inserted + n.skipped_due_to_errors >= n.processed - n.schema_errors

-----------------------------------------------------------------------------
(* C22: contracts for an empty or a repeating key list *)

\* C22: building the evaluator or the judge contract for an empty list of rule
\* keys or for a list that repeats a key raises and leaves no contract
C22_EmptyOrDuplicateKeysRejected ==
    (BundleProbe /\ (probe.rule_keys = <<>> \/ ~DuplicateFree(probe.rule_keys))) =>
        /\ probe.raised
        /\ probe.properties = {}
        /\ probe.required = {}
        /\ ~probe.accepted

\* C22, with the keys as the factory reads them: a key list that is empty
\* once blank keys are dropped, or that holds a key twice once every key is
\* stripped, makes both factories raise, and no contract exists
C22_EmptyOrDuplicateStrippedKeysRejected ==
    (BundleProbe /\ (\/ trimmed_keys(probe.rule_keys) = <<>>
                     \/ ~DuplicateFree(trimmed_keys(probe.rule_keys)))) =>
        /\ probe.raised
        /\ probe.properties = {}
        /\ probe.required = {}
        /\ ~probe.accepted

\* the judge contract asked for a list naming one key twice
C22_Witness ==
    /\ BundleProbe
    /\ probe.kind = "judge"
    /\ probe.rule_keys = << <<"g">>, <<"g">> >>
    /\ probe.raised

-----------------------------------------------------------------------------
(* C23: one conversation after another *)

\* the calls of a run stand in the log in ascending order of conversation
CallsInConversationOrder ==
    \A i, j \in DOMAIN llm_calls :
        (i < j /\ llm_calls[i].run_id = llm_calls[j].run_id) =>
            llm_calls[i].conversation_id <= llm_calls[j].conversation_id

\* once a call for a conversation is in the log, every earlier conversation the
\* run evaluated has its rows
EarlierConversationsPersisted ==
    \A i \in DOMAIN llm_calls :
        LET r == llm_calls[i].run_id
        IN \A c \in SelectedWithSeller(r) :
              c < llm_calls[i].conversation_id =>
                  \A k \in rule_keys : RowsAt(r, c, k) # {}

\* the judge call of a conversation follows its evaluator call, whose verdicts
\* passed the evidence check, and its rows follow the judge call
EvaluatorThenJudgeThenRows ==
    /\ \A j \in DOMAIN llm_calls :
          llm_calls[j].phase = "judge" =>
              \E i \in 1..(j - 1) :
                  /\ llm_calls[i].run_id = llm_calls[j].run_id
                  /\ llm_calls[i].conversation_id = llm_calls[j].conversation_id
                  /\ AcceptedEvaluation(llm_calls[i])
    /\ \A x \in scan_results :
          x.run_id \in RunIds =>
              \E j \in Calls(x.run_id, x.conversation_id, "judge") :
                  llm_calls[j].error_message = ""

\* C23: run_scan takes the conversations one after another in ascending id
\* order, each through evaluator call, evidence validation, judge call and
\* persistence: no call for a later conversation precedes the rows of an
\* earlier evaluated one, no judge call precedes its evaluator call or the
\* evidence validation
C23_ConversationsInSequence ==
    /\ CallsInConversationOrder
    /\ EarlierConversationsPersisted
    /\ EvaluatorThenJudgeThenRows

\* the run stands between the evaluator call and the judge call of its second
\* evaluated conversation, the first one judged and persisted
C23_Witness ==
    /\ pc = "judge"
    /\ \E c, d \in SelectedWithSeller(run.run_id) :
          /\ c < d
          /\ d = conversation_id
          /\ Calls(run.run_id, c, "judge") # {}
          /\ Calls(run.run_id, d, "evaluator") # {}
          /\ Calls(run.run_id, d, "judge") = {}
          /\ \A k \in rule_keys : RowsAt(run.run_id, c, k) # {} /\ RowsAt(run.run_id, d, k) = {}

-----------------------------------------------------------------------------
(* C24: what is committed of a conversation's rows *)

CommittedAt(r, c, k) ==
    {x \in durable : x.run_id = r /\ x.conversation_id = c /\ x.rule_key = k}

\* committed, a conversation of a run has all of its per-rule rows or none
CommittedAllOrNone ==
    \A r \in RunIds, c \in conversations :
        \/ \A k \in rule_keys : CommittedAt(r, c, k) = {}
        \/ \A k \in rule_keys : CommittedAt(r, c, k) # {}

\* while a conversation is being processed the rows of every earlier evaluated
\* conversation of the run are committed
EarlierCommitted ==
    (pc \in {"conversation", "judge"} /\ run.pos <= Len(run.conversation_ids)) =>
        \A c \in SelectedWithSeller(run.run_id) :
            c < conversation_id => \A k \in rule_keys : CommittedAt(run.run_id, c, k) # {}

\* after a crash the rows of every conversation before the one in progress
\* are in the store
CrashKeepsEarlier ==
    last_call.outcome = "crashed" =>
        \A c \in SelectedWithSeller(last_call.run_id) :
            c < last_call.conversation_id =>
                \A k \in rule_keys : RowsAt(last_call.run_id, c, k) # {}

\* after a raised error every conversation that was judged has its rows
RaiseKeepsJudged ==
    \A r \in RunIds \cap DOMAIN scan_runs :
        scan_runs[r].status = "failed" =>
            \A c \in SelectedWithSeller(r) :
                (\E j \in Calls(r, c, "judge") : llm_calls[j].error_message = "") =>
                    \A k \in rule_keys : CommittedAt(r, c, k) # {}

\* C24: the rows of one conversation are committed together: committed, every
\* conversation of a run has all of its per-rule rows or none, and a crash or
\* a raised error while conversation k is being processed loses at most the
\* rows of k, those of every earlier conversation being committed already
C24_ConversationRowsCommittedTogether ==
    /\ CommittedAllOrNone
    /\ EarlierCommitted
    /\ CrashKeepsEarlier
    /\ RaiseKeepsJudged

-----------------------------------------------------------------------------
(* C25: the metrics of a run are recomputed in full *)

MetricsOf(metrics, r) == {m \in metrics : m.run_id = r}

ZeroMetric(m) ==
    /\ m.eval_total = 0 /\ m.eval_true = 0
    /\ m.judged_total = 0 /\ m.judge_true = 0 /\ m.judge_false = 0
    /\ IsZero(m.evaluator_hit_rate)
    /\ IsZero(m.judge_correctness)
    /\ IsZero(m.judge_coverage)

\* C25: after _compute_metrics(run) scan_metrics holds exactly one row of the
\* run per registry rule, all zero for a rule without results, the metric rows
\* of every other run are the ones it held before, and a second call over the
\* same results leaves the same rows
C25_MetricsRecomputedInFull ==
    probe.fn = "_compute_metrics" =>
        /\ \A k \in rule_keys :
              Cardinality({m \in MetricsOf(probe.after, probe.run_id) :
                              m.rule_key = k}) = 1
        /\ \A m \in MetricsOf(probe.after, probe.run_id) :
              /\ m.rule_key \in rule_keys
              /\ m = MetricRow(probe.run_id, m.rule_key, probe.results)
              /\ (\A r \in probe.results :
                      ~(r.run_id = probe.run_id /\ r.rule_key = m.rule_key))
                     => ZeroMetric(m)
        /\ probe.after \ MetricsOf(probe.after, probe.run_id)
               = probe.before \ MetricsOf(probe.before, probe.run_id)
        /\ probe.again = probe.after

\* the run had stale rows beside another run's, one rule has results and
\* another has none
C25_Witness ==
    /\ probe.fn = "_compute_metrics"
    /\ MetricsOf(probe.before, probe.run_id) # {}
    /\ MetricsOf(probe.before, probe.run_id) # MetricsOf(probe.after, probe.run_id)
    /\ MetricsOf(probe.before, "r2") # {}
    /\ \E m \in probe.after : m.run_id = probe.run_id /\ m.eval_total = 2
    /\ \E m \in probe.after : m.run_id = probe.run_id /\ ZeroMetric(m)

-----------------------------------------------------------------------------
(* C26: the worst cells of the heat map *)

WorstProbe == probe.fn = "_worst_heatmap_cells"

JudgedRows(c, k) ==
    {i \in DOMAIN probe.rows : /\ probe.rows[i].run_id = probe.run_id
                               /\ probe.rows[i].conversation_id = c
                               /\ probe.rows[i].rule_key = k
                               /\ probe.rows[i].judge_label # NullInt}

JudgedCells ==
    {ck \in {1, 2} \X rule_keys : JudgedRows(ck[1], ck[2]) # {}}

CellScore(ck) ==
    <<Cardinality({i \in JudgedRows(ck[1], ck[2]) : probe.rows[i].judge_label = 1}),
      Cardinality(JudgedRows(ck[1], ck[2]))>>

\* ascending score, then descending judged count, then ascending
\* conversation id, then rule key
WorseCell(a, b) ==
    \/ FracLess(CellScore(a), CellScore(b))
    \/ /\ FracEq(CellScore(a), CellScore(b))
       /\ \/ CellScore(a)[2] > CellScore(b)[2]
          \/ /\ CellScore(a)[2] = CellScore(b)[2]
             /\ \/ a[1] < b[1]
                \/ a[1] = b[1] /\ StrRank(a[2]) < StrRank(b[2])

WorstCellAt(i) == <<probe.worst[i].conversation_id, probe.worst[i].rule_key>>

\* C26: the ranking lists judged cells only, each once with its score
\* judge_true/judged_total, in ascending score, then descending judged count,
\* then conversation id, then rule key; it holds the first `limit` of them,
\* and the same list comes out when the rows are stored in another order
C26_WorstCellsRanking ==
    WorstProbe =>
        /\ Len(probe.worst) = IF probe.limit < Cardinality(JudgedCells)
                              THEN probe.limit ELSE Cardinality(JudgedCells)
        /\ \A i \in DOMAIN probe.worst :
              /\ WorstCellAt(i) \in JudgedCells
              /\ FracEq(probe.worst[i].score, CellScore(WorstCellAt(i)))
              /\ probe.worst[i].judged_total = CellScore(WorstCellAt(i))[2]
        /\ \A i, j \in DOMAIN probe.worst :
              i < j => WorseCell(WorstCellAt(i), WorstCellAt(j))
        /\ \A ck \in JudgedCells :
              (\A i \in DOMAIN probe.worst : WorstCellAt(i) # ck)
                  => \A i \in DOMAIN probe.worst : WorseCell(WorstCellAt(i), ck)
        /\ probe.worst_reordered = probe.worst

\* two cells of equal score, the one with more judged rows first although it
\* is of the later conversation, beside a cell without a judged row
C26_Witness ==
    /\ WorstProbe
    /\ Len(probe.worst) = 2
    /\ FracEq(probe.worst[1].score, probe.worst[2].score)
    /\ probe.worst[1].judged_total = 2
    /\ probe.worst[2].judged_total = 1
    /\ probe.worst[1].conversation_id > probe.worst[2].conversation_id
    /\ probe.rows # [i \in DOMAIN probe.rows |-> probe.rows[Len(probe.rows) + 1 - i]]

-----------------------------------------------------------------------------
(* C27: the bad cases of a run *)

BadProbe == probe.fn = "_bad_cases"

RejectedRows ==
    {r \in probe.results : r.run_id = probe.run_id /\ r.judge_label = 0}

ConfidenceGap(r) ==
    IF r.eval_confidence >= r.judge_confidence
    THEN r.eval_confidence - r.judge_confidence
    ELSE r.judge_confidence - r.eval_confidence

MessageOrderOf(r) ==
    IF r.evidence_message_order = NullInt THEN 0 ELSE r.evidence_message_order

\* descending confidence gap, then rule key, then evidence message order,
\* then conversation id
BadCaseBefore(a, b) ==
    \/ ConfidenceGap(a) > ConfidenceGap(b)
    \/ /\ ConfidenceGap(a) = ConfidenceGap(b)
       /\ \/ StrRank(a.rule_key) < StrRank(b.rule_key)
          \/ /\ a.rule_key = b.rule_key
             /\ \/ MessageOrderOf(a) < MessageOrderOf(b)
                \/ /\ MessageOrderOf(a) = MessageOrderOf(b)
                   /\ a.conversation_id < b.conversation_id

\* C27: the bad cases are rows of the run with judge_label = 0, each once,
\* the first `limit` of them by descending confidence gap, then rule key,
\* then evidence message order, then conversation id; any two rows of a run
\* are told apart by that order, and a second build lists the same cases in
\* the same order
C27_BadCasesOrder ==
    BadProbe =>
        /\ Len(probe.bad_cases) = IF probe.limit < Cardinality(RejectedRows)
                                  THEN probe.limit ELSE Cardinality(RejectedRows)
        /\ \A i \in DOMAIN probe.bad_cases : probe.bad_cases[i] \in RejectedRows
        /\ \A i, j \in DOMAIN probe.bad_cases :
              i < j => BadCaseBefore(probe.bad_cases[i], probe.bad_cases[j])
        /\ \A r \in RejectedRows :
              (\A i \in DOMAIN probe.bad_cases : probe.bad_cases[i] # r)
                  => \A i \in DOMAIN probe.bad_cases : BadCaseBefore(probe.bad_cases[i], r)
        /\ \A a, b \in RejectedRows : a # b => BadCaseBefore(a, b) \/ BadCaseBefore(b, a)
        /\ probe.again = probe.bad_cases

\* three rejected rows beside an accepted one and a row of another run: two
\* of equal gap, rule and evidence order told apart by the conversation only
C27_Witness ==
    /\ BadProbe
    /\ probe.limit = 20
    /\ Len(probe.bad_cases) = 3
    /\ \E r \in probe.results : r.run_id = probe.run_id /\ r.judge_label = 1
    /\ \E r \in probe.results : r.run_id # probe.run_id
    /\ \E i \in 1..2 :
          /\ ConfidenceGap(probe.bad_cases[i]) = ConfidenceGap(probe.bad_cases[i + 1])
          /\ probe.bad_cases[i].rule_key = probe.bad_cases[i + 1].rule_key
          /\ MessageOrderOf(probe.bad_cases[i]) = MessageOrderOf(probe.bad_cases[i + 1])
          /\ probe.bad_cases[i].conversation_id < probe.bad_cases[i + 1].conversation_id

-----------------------------------------------------------------------------
(* C28: the preconditions of run_scan *)

PositionOf(c) == Cardinality({d \in conversations : d < c})

LastPosition(conversation_to) ==
    IF conversation_to < Cardinality(conversations) - 1
    THEN conversation_to ELSE Cardinality(conversations) - 1

SelectedPositions(conversation_from, conversation_to) ==
    {c \in conversations : /\ conversation_from <= PositionOf(c)
                           /\ PositionOf(c) <= LastPosition(conversation_to)}

PreconditionFails(live, conversation_from, conversation_to) ==
    \/ ~live
    \/ conversation_from < 0
    \/ conversation_to < conversation_from
    \/ conversations = {}
    \/ conversation_from >= Cardinality(conversations)
    \/ \A m \in messages :
          m.conversation_id \notin SelectedPositions(conversation_from, conversation_to)

\* the step is run_scan(llm, conversation_from, conversation_to, run_id_override)
\* up to its first LLM call or to the error it raises
RunScanCalled(live, range, id) ==
    \/ StartScan(MaxFreshRuns, live, range, id)
    \/ StartScanRejected(live, range, id)

NothingCreated ==
    /\ scan_runs' = scan_runs
    /\ llm_calls' = llm_calls
    /\ scan_results' = scan_results
    /\ last_call'.outcome = "raised"
    /\ pc' = "idle"

ExactlySelected(range, id) ==
    /\ id \in DOMAIN scan_runs'
    /\ run'.run_id = id
    /\ Range(run'.conversation_ids) = SelectedPositions(range[1], range[2])
    /\ Len(run'.conversation_ids) = LastPosition(range[2]) - range[1] + 1
    /\ \A i \in DOMAIN run'.conversation_ids :
          PositionOf(run'.conversation_ids[i]) = range[1] + i - 1
    /\ scan_runs'[id].selected_conversations = Len(run'.conversation_ids)

PreconditionsStep ==
    \A live \in BOOLEAN, range \in ScanRanges, id \in RunIds :
        RunScanCalled(live, range, id) =>
            IF PreconditionFails(live, range[1], range[2])
            THEN NothingCreated
            ELSE id \notin DOMAIN scan_runs => ExactlySelected(range, id)

\* C28: run_scan raises and creates no scan run, no LLM call record and no
\* result row when the client is not live, conversation_from < 0,
\* conversation_to < conversation_from, the store has no conversations,
\* conversation_from is not below their number or the selected ones have no
\* messages; otherwise it selects the conversations at the zero-based
\* positions conversation_from..conversation_to, cut at the last one, in
\* ascending order of conversation id
C28_PreconditionsBeforeStore == [][PreconditionsStep]_vars

\* a call is rejected in a store whose scan of the positions 2..4 of three
\* conversations ran over the last one alone
C28_Witness ==
    /\ pc = "idle"
    /\ last_call = [run_id |-> NoRun, outcome |-> "raised"]
    /\ Cardinality(conversations) = 3
    /\ \E r \in DOMAIN scan_runs :
          /\ scan_runs[r].status = "success"
          /\ scan_runs[r].conversation_from = 2
          /\ scan_runs[r].conversation_to = 4
          /\ scan_runs[r].selected_conversations = 1
          /\ {x.conversation_id : x \in {y \in scan_results : y.run_id = r}} = {3}

-----------------------------------------------------------------------------
(* C29: the run the canonical pointer names *)

\* C29: whenever no scan is in progress the canonical pointer is unset or
\* names a run that scan_runs holds with status 'success'; it names no
\* failed, running or deleted run
C29_CanonicalNamesSuccessfulRun ==
    pc = "idle" =>
        \/ app_state = NoRun
        \/ /\ app_state \in DOMAIN scan_runs
           /\ scan_runs[app_state].status = "success"

\* a scan failed after the scan that was pinned as canonical
C29_Witness ==
    /\ pc = "idle"
    /\ app_state \in RunIds
    /\ last_call.outcome = "raised"
    /\ last_call.run_id \in DOMAIN scan_runs
    /\ last_call.run_id # app_state
    /\ scan_runs[last_call.run_id].status = "failed"
    /\ scan_runs[last_call.run_id].started_at_utc > scan_runs[app_state].started_at_utc

-----------------------------------------------------------------------------
(* C30: the CallResult of call_json_schema *)

CallProbe == probe.fn = "call_json_schema"

\* some object node of the schema, the top one or one of a rule, does not
\* list every property as required or does not forbid additional properties
ObjectNodeNotStrict(schema) ==
    \E node \in {schema} \cup Range(schema.children) :
        /\ node.type = "object"
        /\ \/ node.required = {"<none>"}
           \/ \E name \in node.names : name \notin node.required
           \/ node.additional # "false"

\* C30: in every CallResult parsed is set exactly when validation_ok holds and
\* exactly when error_message is empty, validation_ok implies parse_ok, a
\* schema error or live error comes with an error message, and a schema that
\* fails the strict contract gives a schema error without the provider
\* having been called
C30_CallResultConsistent ==
    CallProbe =>
        /\ (probe.result.parsed # NoPayload) <=> probe.result.validation_ok
        /\ probe.result.validation_ok <=> (probe.result.error_message = "")
        /\ probe.result.validation_ok => probe.result.parse_ok
        /\ (probe.result.is_schema_error \/ probe.result.is_live_error)
               => probe.result.error_message # ""
        /\ ObjectNodeNotStrict(probe.schema)
               => ~probe.provider_called /\ probe.result.is_schema_error

====
